---------------------------- MODULE Spec2Model ----------------------------
(***************************************************************************)
(* A model of engram: the hash-linked worklog kept under .engram/.         *)
(*                                                                         *)
(* Text.  A Rust String is modelled as a sequence of tokens; every token   *)
(* is a tuple whose first element is a string, so that any two tokens can  *)
(* be compared.  A literal piece of text is the one-element tuple <<s>>.   *)
(* The 64 hex characters sha256_hex returns for a content c are the one    *)
(* token <<"h64", c>>, and their first 8 characters are the one token      *)
(* <<"h8", c>>: SHA-256 is taken to be collision free, on the full digest  *)
(* and on its 8-character prefix, so two contents have equal digests only  *)
(* when they are the same text.                                            *)
(*                                                                         *)
(* File system.  The directory the commands run in holds                   *)
(*   fsDirs     the directories that exist, by path;                       *)
(*   fsEntries  for each of the two entry directories the code names       *)
(*              (.engram/history in commit.rs, .engram/worklog elsewhere), *)
(*              the files in it other than SUMMARY.md, as records          *)
(*              [name, content];                                           *)
(*   fsSummary  the SUMMARY.md of each entry directory (None when absent); *)
(*   fsDraft    .engram/draft.md (None when absent);                       *)
(*   fsOther    the paths of the other files init writes.                  *)
(* read_dir lists a directory in an order the platform chooses: every      *)
(* operation that scans a directory takes the listing as an input.         *)
(***************************************************************************)
EXTENDS Integers, Sequences, FiniteSets, TLC

VARIABLES fsDirs, fsEntries, fsSummary, fsDraft, fsOther,
          last,        \* the last operation and what it returned
          committed,   \* ghost: what each successful commit persisted, in order
          nValid,      \* ghost: commits issued on a draft that parses
          foreign      \* ghost: entry files written or changed by hand, in order

vars == <<fsDirs, fsEntries, fsSummary, fsDraft, fsOther, last, committed, nValid, foreign>>

(***************************************************************************)
(* Bounds of the exploration.                                              *)
(***************************************************************************)
MaxCommits == 3    \* commit invocations in one behaviour
MaxSeeds == 1      \* entry files placed by hand before the first commit
MaxEntries == 3    \* entries of a hand-built chain
MaxTampers == 2    \* entries of a hand-built chain changed or removed afterwards

(***************************************************************************)
(* Tokens and text.                                                        *)
(***************************************************************************)
T(s) == <<s>>
NL == T("\n")
CR == T("\r")
SP == T(" ")
None == <<>>
Some(v) == <<v>>

\* the previous-link of a first entry
NoneLink == <<T("none")>>

DigitChars == <<"0", "1", "2", "3", "4", "5", "6", "7", "8", "9">>
DigitTok(d) == T(DigitChars[d + 1])
IsAsciiDigit(tok) == \E d \in 0..9 : tok = DigitTok(d)
DigitVal(tok) == CHOOSE d \in 0..9 : tok = DigitTok(d)

\* decimal digits outside ASCII (general category Nd), each one token named
\* by its code point: ARABIC-INDIC DIGIT ZERO, DEVANAGARI DIGIT ONE,
\* FULLWIDTH DIGIT FIVE
NonAsciiDigits == {T("U+0660"), T("U+0967"), T("U+FF15")}

\* \d of the regex crate: any decimal digit of Unicode
IsDigit(tok) == IsAsciiDigit(tok) \/ tok \in NonAsciiDigits

\* the number of bytes of the UTF-8 encoding of a digit
Utf8Len(tok) ==
    IF IsAsciiDigit(tok) THEN 1 ELSE IF tok = T("U+0660") THEN 2 ELSE 3

\* the place of a digit in the order of code points, which is the order of
\* strings
DigitRank(tok) ==
    IF IsAsciiDigit(tok) THEN DigitVal(tok)
    ELSE IF tok = T("U+0660") THEN 10
    ELSE IF tok = T("U+0967") THEN 11
    ELSE 12

TAB == T("\t")

\* char::is_whitespace on the characters of the model
IsWhitespace(tok) == tok \in {SP, NL, CR, TAB}

RECURSIVE TrimStart(_)
TrimStart(text) ==
    IF text # <<>> /\ IsWhitespace(Head(text)) THEN TrimStart(Tail(text)) ELSE text

RECURSIVE TrimEnd(_)
TrimEnd(text) ==
    IF text # <<>> /\ IsWhitespace(text[Len(text)])
    THEN TrimEnd(SubSeq(text, 1, Len(text) - 1))
    ELSE text

\* str::trim
Trim(text) == TrimEnd(TrimStart(text))

\* str::find on a one-token pattern: the first position holding it, 0 when none
Find(text, tok) ==
    IF \E i \in 1..Len(text) : text[i] = tok
    THEN CHOOSE i \in 1..Len(text) : text[i] = tok /\ \A j \in 1..(i - 1) : text[j] # tok
    ELSE 0

\* a line as str::lines yields it: the carriage return that stands before
\* the line feed belongs to the line ending
WithoutLineEnding(piece) ==
    IF piece # <<>> /\ piece[Len(piece)] = CR THEN SubSeq(piece, 1, Len(piece) - 1)
    ELSE piece

\* str::lines: the pieces between line endings (a line feed, or a carriage
\* return and a line feed); a final line ending ends the last line and opens
\* no empty one
RECURSIVE Lines(_)
Lines(text) ==
    IF text = <<>> THEN <<>>
    ELSE LET n == Find(text, NL)
         IN  IF n = 0 THEN <<text>>
             ELSE <<WithoutLineEnding(SubSeq(text, 1, n - 1))>>
                    \o Lines(SubSeq(text, n + 1, Len(text)))

(***************************************************************************)
(* utils/hash.rs                                                           *)
(***************************************************************************)
sha256_hex(content) == << <<"h64", content>> >>

\* the [..8] slice of the hex digest
HexPrefix8(hex) == << <<"h8", hex[1][2]>> >>

sha256_short(content) == HexPrefix8(sha256_hex(content))

\* hex text written by hand rather than computed
ZeroHash64 == T("0000000000000000000000000000000000000000000000000000000000000000")
ZeroHash8 == T("00000000")
HandHash8 == T("a1b2c3d4")

\* [a-f0-9]{64} and [a-f0-9]{8}
IsHex64(tok) == tok[1] = "h64" \/ tok = ZeroHash64
IsHex8(tok) == tok[1] = "h8" \/ tok \in {ZeroHash8, HandHash8}

(***************************************************************************)
(* engram/worklog.rs                                                       *)
(***************************************************************************)
\* the "%Y-%m-%dT%H:%M:%SZ" rendering of a DateTime<Utc>
FormatDate(date) == <<T(date.day), T("T"), T(date.time)>>

\* impl Display for EntryContent
EntryContent_to_string(e) ==
    <<T("Summary: ")>> \o e.summary \o <<NL>>
      \o <<T("Previous: ")>> \o e.previous \o <<NL>>
      \o <<T("Date: ")>> \o FormatDate(e.date) \o <<NL>>
      \o <<NL, T("---"), NL, NL>> \o e.body

RECURSIVE DecimalDigits(_)
DecimalDigits(n) ==
    IF n < 10 THEN <<DigitTok(n)>>
    ELSE DecimalDigits(n \div 10) \o <<DigitTok(n % 10)>>

RECURSIVE ZeroPad(_, _)
ZeroPad(digits, width) ==
    IF Len(digits) >= width THEN digits ELSE ZeroPad(<<DigitTok(0)>> \o digits, width)

\* format!("{:0w$}", n): at least w digits, more when n needs them
FormatPadded(n, width) == ZeroPad(DecimalDigits(n), width)

RECURSIVE ParseDecimal(_)
ParseDecimal(digits) ==
    IF digits = <<>> THEN 0
    ELSE 10 * ParseDecimal(SubSeq(digits, 1, Len(digits) - 1)) + DigitVal(digits[Len(digits)])

FilenameDigits == 6

\* the regex ^(\d{6})_([a-f0-9]{8})\.md$
FilenameMatches(filename) ==
    /\ Len(filename) = FilenameDigits + 3
    /\ \A i \in 1..FilenameDigits : IsDigit(filename[i])
    /\ filename[FilenameDigits + 1] = T("_")
    /\ IsHex8(filename[FilenameDigits + 2])
    /\ filename[FilenameDigits + 3] = T(".md")

\* WorklogEntry::from_filename; the entry's path is base_path joined with filename
from_filename(filename, base_path) ==
    IF FilenameMatches(filename)
         /\ \A i \in 1..FilenameDigits : IsAsciiDigit(filename[i])   \* parse::<u32>().ok()?
    THEN Some([sequence   |-> ParseDecimal(SubSeq(filename, 1, FilenameDigits)),
               short_hash |-> <<filename[FilenameDigits + 2]>>,
               filename   |-> filename,
               path       |-> [dir |-> base_path, name |-> filename]])
    ELSE None

(***************************************************************************)
(* engram/chain.rs                                                         *)
(***************************************************************************)
\* the regex ^Previous: ([a-f0-9]{64}|none)$ on one line
PreviousLineMatches(line) ==
    /\ Len(line) = 2
    /\ line[1] = T("Previous: ")
    /\ (IsHex64(line[2]) \/ line[2] = T("none"))

\* the regexes ^Summary: (.+)$ and ^Date: (.+)$ on one line
FieldLineMatches(line, field) == Len(line) >= 2 /\ line[1] = T(field)

\* the last line that matches, 0 when none does
LastLine(matching) ==
    IF \E i \in 1..Len(matching) : matching[i]
    THEN CHOOSE i \in 1..Len(matching) :
             matching[i] /\ \A j \in (i + 1)..Len(matching) : ~matching[j]
    ELSE 0

\* the first line that matches, 0 when none does: matching[i] tells whether
\* line i matches
FirstLine(matching) ==
    IF \E i \in 1..Len(matching) : matching[i]
    THEN CHOOSE i \in 1..Len(matching) :
             matching[i] /\ \A j \in 1..(i - 1) : ~matching[j]
    ELSE 0

parse_previous_hash(content) ==
    LET lines == Lines(content)
        n == FirstLine([i \in 1..Len(lines) |-> PreviousLineMatches(lines[i])])
    IN  IF n = 0 THEN None ELSE Some(Tail(lines[n]))

parse_field(content, field) ==
    LET lines == Lines(content)
        n == FirstLine([i \in 1..Len(lines) |-> FieldLineMatches(lines[i], field)])
    IN  IF n = 0 THEN None ELSE Some(Tail(lines[n]))

parse_summary(content) == parse_field(content, "Summary: ")

parse_date(content) == parse_field(content, "Date: ")

(***************************************************************************)
(* engram/draft.rs                                                         *)
(***************************************************************************)
OpenTag == T("<summary>")
CloseTag == T("</summary>")
OpenComment == T("<!--")
CloseComment == T("-->")

\* a lazy .*? from position i up to the first `close` after it, stopped by
\* a line feed, which `.` does not match: the position of that close, 0 when
\* the line ends first
RECURSIVE LazyClose(_, _, _)
LazyClose(text, i, close) ==
    IF i > Len(text) THEN 0
    ELSE IF text[i] = close THEN i
    ELSE IF text[i] = NL THEN 0
    ELSE LazyClose(text, i + 1, close)

\* the leftmost match of <open>(.*?)<close> at or after position from:
\* <<position of open, position of close>>, <<0, 0>> when there is none
RECURSIVE LeftmostSpan(_, _, _, _)
LeftmostSpan(text, from, open, close) ==
    IF from > Len(text) THEN <<0, 0>>
    ELSE IF text[from] = open /\ LazyClose(text, from + 1, close) # 0
    THEN <<from, LazyClose(text, from + 1, close)>>
    ELSE LeftmostSpan(text, from + 1, open, close)

\* the text with its comments left in
KeepComments(text) == text

\* Regex::replace_all(<!--.*?-->, "")
RECURSIVE remove_html_comments(_)
remove_html_comments(text) ==
    LET span == LeftmostSpan(text, 1, OpenComment, CloseComment)
    IN  IF span[1] = 0 THEN text
        ELSE SubSeq(text, 1, span[1] - 1)
               \o remove_html_comments(SubSeq(text, span[2] + 1, Len(text)))

Draft_parse(content) ==
    LET caps == LeftmostSpan(content, 1, OpenTag, CloseTag)
        summary == Trim(SubSeq(content, caps[1] + 1, caps[2] - 1))
        body_start == Find(content, CloseTag)
        body == Trim(SubSeq(content, body_start + 1, Len(content)))
        body_without_comments == remove_html_comments(body)
    IN  IF caps[1] = 0 THEN [ok |-> FALSE, err |-> "MissingSummaryTag"]
        ELSE IF summary = <<>> THEN [ok |-> FALSE, err |-> "EmptySummary"]
        ELSE IF Trim(body_without_comments) = <<>> THEN [ok |-> FALSE, err |-> "EmptyBody"]
        ELSE [ok |-> TRUE, summary |-> summary, body |-> body]


(***************************************************************************)
(* templates/                                                              *)
(***************************************************************************)
\* a template that has a summary
FilledTemplate == <<OpenTag, T("Summary"), CloseTag, NL, NL, T("## Intent"), NL>>

DRAFT_TEMPLATE ==
    <<OpenTag, CloseTag, NL, NL,
      T("## Intent"), NL,
      OpenComment, T(" Why was this change made? What problem does it solve? "), CloseComment, NL, NL,
      T("## Changes"), NL,
      OpenComment, T(" List specific files and functions modified "), CloseComment, NL, NL,
      T("## Verification"), NL,
      OpenComment, T(" How did you test or validate this change? "), CloseComment, NL>>

\* templates/summary.rs is not among the sources: the header the tests of
\* engram/summary.rs write
SUMMARY_TEMPLATE ==
    <<T("# Engram Worklog"), NL, NL,
      T("| Entry | Summary |"), NL,
      T("|-------|---------|"), NL>>

(***************************************************************************)
(* The store: the part of the file system the commands read and write.     *)
(***************************************************************************)
init_ENGRAM_DIR == ".engram"
init_WORKLOG_DIR == ".engram/worklog"       \* engram_dir.join("worklog")
commit_ENGRAM_DIR == ".engram"
commit_HISTORY_DIR == ".engram/history"
verify_ENGRAM_DIR == ".engram"
verify_WORKLOG_DIR == ".engram/worklog"
status_ENGRAM_DIR == ".engram"
status_WORKLOG_DIR == ".engram/worklog"

EntryDirs == {".engram/history", ".engram/worklog"}

SummaryName == <<T("SUMMARY"), T(".md")>>

Store == [dirs |-> fsDirs, entries |-> fsEntries, summary |-> fsSummary, draft |-> fsDraft]

\* a check of existence that always succeeds
AlwaysExists(st, dir) == TRUE

\* Path::exists on a directory path
DirExists(st, dir) == dir \in st.dirs

\* the names fs::read_dir yields for a directory
DirNames(st, dir) ==
    {f.name : f \in st.entries[dir]} \cup (IF st.summary[dir] = None THEN {} ELSE {SummaryName})

RECURSIVE Orders(_)
Orders(S) ==
    IF S = {} THEN {<<>>}
    ELSE UNION {{<<x>> \o rest : rest \in Orders(S \ {x})} : x \in S}

\* the orders in which fs::read_dir may list a directory
Listings(st, dir) == Orders(DirNames(st, dir))

RECURSIVE SomeOrder(_)
SomeOrder(S) ==
    IF S = {} THEN <<>>
    ELSE LET x == CHOOSE y \in S : TRUE IN <<x>> \o SomeOrder(S \ {x})

\* one listing for each name the directory may list first.  A scan that
\* takes a maximum over the listing, or stops at the first name passing a
\* test, gives on every listing the result it gives on one of these.
HeadListings(st, dir) ==
    IF DirNames(st, dir) = {} THEN {<<>>}
    ELSE {<<x>> \o SomeOrder(DirNames(st, dir) \ {x}) : x \in DirNames(st, dir)}

\* fs::read_to_string on a file of an entry directory that exists
ReadFile(st, path) ==
    IF path.name = SummaryName THEN st.summary[path.dir][1]
    ELSE (CHOOSE f \in st.entries[path.dir] : f.name = path.name).content

\* fs::write on a file of an entry directory: creates the file or replaces
\* its content
WriteEntryFile(entries, dir, name, content) ==
    [entries EXCEPT ![dir] =
        {f \in @ : f.name # name} \cup {[name |-> name, content |-> content]}]

(***************************************************************************)
(* engram/summary.rs                                                       *)
(***************************************************************************)
\* an index rewritten with the new row alone under the header
RewriteIndex(content, filename, summary) ==
    SUMMARY_TEMPLATE \o (<<T("| ")>> \o filename \o <<T(" | ")>> \o summary \o <<T(" |"), NL>>)

\* append_entry: the new content of the file (the caller has checked that
\* the file can be read)
append_entry(content, filename, summary) ==
    content \o (<<T("| ")>> \o filename \o <<T(" | ")>> \o summary \o <<T(" |"), NL>>)

\* the character `|` on its own, as a summary may hold it
PIPE == T("|")

\* a piece of text taken apart at its `|` characters, its spaces and the
\* prefixes read_entries tests for
Pieces(piece) ==
    CASE piece = T("| ")  -> <<PIPE, SP>>
      [] piece = T(" | ") -> <<SP, PIPE, SP>>
      [] piece = T(" |")  -> <<SP, PIPE>>
      [] piece = T("| Entry | Summary |") ->
             <<PIPE, SP, T("Entry"), SP, PIPE, SP, T("Summary"), SP, PIPE>>
      [] piece = T("|-------|---------|") ->
             <<PIPE, T("---"), T("----"), PIPE, T("---------"), PIPE>>
      [] piece = T("# Engram Worklog") -> <<T("# "), T("Engram Worklog")>>
      [] OTHER -> <<piece>>

RECURSIVE Explode(_)
Explode(text) ==
    IF text = <<>> THEN <<>> ELSE Pieces(Head(text)) \o Explode(Tail(text))

\* str::starts_with
StartsWith(text, prefix) ==
    Len(text) >= Len(prefix) /\ SubSeq(text, 1, Len(prefix)) = prefix

\* str::split('|'): the parts between the `|` characters
RECURSIVE SplitOnPipe(_)
SplitOnPipe(text) ==
    LET n == Find(text, PIPE)
    IN  IF n = 0 THEN <<text>>
        ELSE <<SubSeq(text, 1, n - 1)>> \o SplitOnPipe(SubSeq(text, n + 1, Len(text)))

\* the loop of read_entries over the lines left to read
RECURSIVE ReadLines(_, _)
ReadLines(lines, entries) ==
    IF lines = <<>> THEN entries
    ELSE LET line == Explode(Head(lines))
             parts == SplitOnPipe(line)
         IN  IF \/ StartsWith(line, <<PIPE, SP, T("Entry")>>)
                \/ StartsWith(line, <<PIPE, T("---")>>)
                \/ StartsWith(line, <<T("# ")>>)
             THEN ReadLines(Tail(lines), entries)
             ELSE IF StartsWith(line, <<PIPE>>) /\ Len(parts) >= 3 /\ Trim(parts[2]) # <<>>
             THEN ReadLines(Tail(lines), Append(entries, <<Trim(parts[2]), Trim(parts[3])>>))
             ELSE ReadLines(Tail(lines), entries)

\* read_entries on the content of the file
read_entries(content) == ReadLines(Lines(content), <<>>)

(***************************************************************************)
(* commands/commit.rs                                                      *)
(***************************************************************************)
RECURSIVE MaxSequenceOver(_, _, _)
MaxSequenceOver(listing, base_path, max_sequence) ==
    IF listing = <<>> THEN max_sequence
    ELSE LET worklog_entry == from_filename(Head(listing), base_path)
         IN  MaxSequenceOver(Tail(listing), base_path,
                 IF worklog_entry # None /\ worklog_entry[1].sequence > max_sequence
                 THEN worklog_entry[1].sequence
                 ELSE max_sequence)

\* a sequence number taken from the index: one more than its rows
NextSequenceByIndex(st, history_path, listing) ==
    IF st.summary[history_path] = None THEN 1
    ELSE Len(SelectSeq(Lines(st.summary[history_path][1]),
                       LAMBDA l : l # <<>> /\ l[1] = T("| "))) + 1

get_next_sequence(st, history_path, listing) ==
    IF ~DirExists(st, history_path) THEN 1
    ELSE MaxSequenceOver(listing, history_path, 0) + 1

\* the loop of get_previous_hash: the first listed entry of sequence
\* prev_sequence, None when there is none
RECURSIVE FirstWithSequence(_, _, _)
FirstWithSequence(listing, base_path, prev_sequence) ==
    IF listing = <<>> THEN None
    ELSE LET worklog_entry == from_filename(Head(listing), base_path)
         IN  IF worklog_entry # None /\ worklog_entry[1].sequence = prev_sequence
             THEN worklog_entry
             ELSE FirstWithSequence(Tail(listing), base_path, prev_sequence)

\* a link that falls back to "none" when the entry before is not found
PreviousOrNone(st, history_path, current_sequence, listing) ==
    LET found == FirstWithSequence(listing, history_path, current_sequence - 1)
    IN  IF current_sequence = 1 \/ found = None THEN [ok |-> TRUE, hash |-> <<T("none")>>]
        ELSE [ok |-> TRUE, hash |-> sha256_hex(ReadFile(st, found[1].path))]

\* get_previous_hash
get_previous_hash(st, history_path, current_sequence, listing) ==
    IF current_sequence = 1 THEN [ok |-> TRUE, hash |-> <<T("none")>>]
    ELSE LET found == FirstWithSequence(listing, history_path, current_sequence - 1)
         IN  IF found # None
             THEN [ok |-> TRUE, hash |-> sha256_hex(ReadFile(st, found[1].path))]
             ELSE [ok |-> FALSE, hash |-> <<>>]

SequenceWidth == 3

\* format!("{:03}_{}.md", sequence, short_hash)
EntryFilename(sequence, short_hash) ==
    FormatPadded(sequence, SequenceWidth) \o <<T("_")>> \o short_hash \o <<T(".md")>>

CommitError(st, kind, detail) ==
    [ok |-> FALSE, kind |-> kind, detail |-> detail, store |-> st]

\* run_commit_in_dir where the directory was listed as `seen` by the scan
\* of get_next_sequence and is found as st, listed as `listing`, from the
\* scan of get_previous_hash on: what it returns and the store it leaves
run_commit_between_scans(seen, st, now, listing) ==
    LET history_dir == commit_HISTORY_DIR
        parsed == Draft_parse(st.draft[1])
        sequence == get_next_sequence(st, history_dir, seen)
        prev == get_previous_hash(st, history_dir, sequence, listing)
        entry == [summary |-> parsed.summary, previous |-> prev.hash,
                  date |-> now, body |-> parsed.body]
        entry_content == EntryContent_to_string(entry)
        short_hash == sha256_short(entry_content)
        filename == EntryFilename(sequence, short_hash)
        written == [st EXCEPT !.entries = WriteEntryFile(@, history_dir, filename, entry_content)]
        appended == [written EXCEPT !.summary[history_dir] =
                        Some(append_entry(@[1], filename, parsed.summary))]
        reset == [appended EXCEPT !.draft = Some(DRAFT_TEMPLATE)]
    IN  IF ~DirExists(st, commit_ENGRAM_DIR)
        THEN CommitError(st, "NotFound", "Engram not initialized")
        ELSE IF st.draft = None
        THEN CommitError(st, "NotFound", "draft.md not found")
        ELSE IF ~parsed.ok
        THEN CommitError(st, "InvalidData", parsed.err)
        ELSE IF ~prev.ok
        THEN CommitError(st, "NotFound", "Previous entry not found")
        ELSE IF ~DirExists(st, history_dir)
        THEN CommitError(st, "NotFound", "write entry file")
        ELSE IF written.summary[history_dir] = None
        THEN CommitError(written, "NotFound", "read SUMMARY.md")
        ELSE [ok |-> TRUE, kind |-> "Ok", detail |-> "",
              store |-> reset,
              writes |-> <<written, appended, reset>>,
              sequence |-> sequence, content |-> entry_content,
              filename |-> filename, summary |-> parsed.summary, previous |-> prev.hash]

\* run_commit_in_dir: what it returns and the store it leaves, for the store
\* st it runs on, the time now and the listing read_dir gives of the history
\* directory
run_commit_in_dir(st, now, listing) == run_commit_between_scans(listing, st, now, listing)


(***************************************************************************)
(* utils/fs.rs                                                             *)
(***************************************************************************)
ListedDigits == 3

\* the regex ^\d{3}_[a-f0-9]{8}\.md$ of list_worklog_entries
ListedNameMatches(name) ==
    /\ Len(name) = ListedDigits + 3
    /\ \A i \in 1..ListedDigits : IsDigit(name[i])
    /\ name[ListedDigits + 1] = T("_")
    /\ IsHex8(name[ListedDigits + 2])
    /\ name[ListedDigits + 3] = T(".md")

\* the order of strings on two runs of digits of the same length
RECURSIVE DigitsLeq(_, _)
DigitsLeq(a, b) ==
    IF a = <<>> THEN TRUE
    ELSE IF DigitRank(Head(a)) # DigitRank(Head(b)) THEN DigitRank(Head(a)) < DigitRank(Head(b))
    ELSE DigitsLeq(Tail(a), Tail(b))

\* list_worklog_entries and entries.last(): of the names of the listing
\* that match, sorted as strings, the digits of the last one, which are the
\* greatest digits of all (which of two names of the same digits is last
\* depends on the text of their hashes, and next_sequence_number reads
\* nothing of the last name but its first bytes)
LastListedDigits(st, listing) ==
    LET digits == {SubSeq(listing[i], 1, ListedDigits) :
                      i \in {j \in DOMAIN listing : ListedNameMatches(listing[j])}}
    IN  IF ~DirExists(st, init_WORKLOG_DIR) \/ digits = {} THEN None
        ELSE Some(CHOOSE n \in digits : \A m \in digits : DigitsLeq(m, n))

\* the number of bytes of the first k of the digits a name begins with
RECURSIVE BytesOf(_, _)
BytesOf(name, k) == IF k = 0 THEN 0 ELSE BytesOf(name, k - 1) + Utf8Len(name[k])

\* last[..3]: the characters that make the first three bytes of the name;
\* the slice panics when the third byte ends inside a character
FirstBytes(name) ==
    IF \E k \in 1..ListedDigits : BytesOf(name, k) = ListedDigits
    THEN Some(SubSeq(name, 1, CHOOSE k \in 1..ListedDigits : BytesOf(name, k) = ListedDigits))
    ELSE None

\* next_sequence_number: the number it returns, or the panic of the slice
next_sequence_number(st, listing) ==
    LET entries_last == LastListedDigits(st, listing)
    IN  IF entries_last = None THEN [ok |-> TRUE, value |-> 1]
        ELSE LET slice == FirstBytes(entries_last[1])
             IN  IF slice = None THEN [ok |-> FALSE, kind |-> "panic"]
                 ELSE IF \A i \in DOMAIN slice[1] : IsAsciiDigit(slice[1][i])
                 THEN [ok |-> TRUE, value |-> ParseDecimal(slice[1]) + 1]
                 ELSE [ok |-> TRUE, value |-> 0 + 1]    \* unwrap_or(0)

(***************************************************************************)
(* commands/verify.rs                                                      *)
(***************************************************************************)
\* collect_entries: the listed names from_filename accepts, in listing order
RECURSIVE collect_entries(_, _)
collect_entries(listing, history_path) ==
    IF listing = <<>> THEN <<>>
    ELSE LET entry == from_filename(Head(listing), history_path)
         IN  (IF entry # None THEN <<entry[1]>> ELSE <<>>)
               \o collect_entries(Tail(listing), history_path)

\* an entry put at the front of what was sorted so far, whatever its key
InsertFirst(sorted, entry, sign) == <<entry>> \o sorted

\* one step of a stable insertion: entry goes after every element whose key
\* is not greater; the key is sign * sequence
RECURSIVE InsertByKey(_, _, _)
InsertByKey(sorted, entry, sign) ==
    IF sorted = <<>> THEN <<entry>>
    ELSE IF sign * Head(sorted).sequence <= sign * entry.sequence
    THEN <<Head(sorted)>> \o InsertByKey(Tail(sorted), entry, sign)
    ELSE <<entry>> \o sorted

\* Vec::sort_by_key, a stable sort
RECURSIVE SortByKeyFrom(_, _, _)
SortByKeyFrom(sorted, rest, sign) ==
    IF rest = <<>> THEN sorted
    ELSE SortByKeyFrom(InsertByKey(sorted, Head(rest), sign), Tail(rest), sign)

\* the entries left in the order of the listing
Unsorted(entries) == entries

\* entries.sort_by_key(|e| e.sequence)
SortBySequence(entries) == SortByKeyFrom(<<>>, entries, 1)

\* entries.sort_by_key(|e| std::cmp::Reverse(e.sequence))
SortBySequenceReversed(entries) == SortByKeyFrom(<<>>, entries, 0 - 1)

\* date.split('T').next(): the text before the first T
DateShort(date) ==
    LET n == Find(date, T("T"))
    IN  IF n = 0 THEN date ELSE SubSeq(date, 1, n - 1)

\* parse_date(&content).unwrap_or_else(|| "unknown"), then its short form
EntryDateShort(content) ==
    LET date == parse_date(content)
    IN  DateShort(IF date = None THEN <<T("unknown")>> ELSE date[1])

\* the comparison that never finds a difference
NeverDiffers(a, b) == FALSE

\* embedded_prev != expected_prev
LinkDiffers(embedded_prev, expected_prev) == embedded_prev # expected_prev

\* content_short_hash != entry.short_hash
ShortHashDiffers(content_short_hash, short_hash) == content_short_hash # short_hash

\* first_entry is set at the latest entry whatever it holds
TrackLatestAsFirst(first_entry, dated) == Some(dated)

\* if first_entry.is_none() { first_entry = Some((filename, date_short)) }
TrackFirstEntry(first_entry, dated) ==
    IF first_entry = None THEN Some(dated) ELSE first_entry

VerifyFailure(kind, filename, read) ==
    [ok |-> FALSE, kind |-> kind, filename |-> filename,
     expected |-> <<>>, found |-> <<>>, content_hash |-> <<>>, filename_hash |-> <<>>,
     read |-> read]

\* the for loop of verify_chain_in_dir from entry i on; read lists the files
\* read so far
RECURSIVE VerifyLoop(_, _, _, _, _, _, _)
VerifyLoop(st, entries, i, expected_prev, first_entry, latest_entry, read) ==
    IF i > Len(entries)
    THEN [ok |-> TRUE, kind |-> "Ok", entry_count |-> Len(entries),
          first_entry |-> first_entry, latest_entry |-> latest_entry, read |-> read]
    ELSE LET entry == entries[i]
             content == ReadFile(st, entry.path)
             nowRead == Append(read, entry.filename)
             embedded_prev == parse_previous_hash(content)
             content_hash == sha256_hex(content)
             content_short_hash == sha256_short(content)
             dated == <<entry.filename, EntryDateShort(content)>>
         IN  IF embedded_prev = None
             THEN VerifyFailure("MissingPreviousLine", entry.filename, nowRead)
             ELSE IF LinkDiffers(embedded_prev[1], expected_prev)
             THEN [VerifyFailure("ChainBroken", entry.filename, nowRead)
                     EXCEPT !.expected = expected_prev, !.found = embedded_prev[1]]
             ELSE IF ShortHashDiffers(content_short_hash, entry.short_hash)
             THEN [VerifyFailure("HashMismatch", entry.filename, nowRead)
                     EXCEPT !.content_hash = content_short_hash,
                            !.filename_hash = entry.short_hash]
             ELSE VerifyLoop(st, entries, i + 1, content_hash,
                             TrackFirstEntry(first_entry, dated),
                             Some(dated), nowRead)

\* verify_chain_in_dir on the store st, read_dir listing the worklog
\* directory as listing
verify_chain_in_dir(st, listing) ==
    LET worklog_dir == verify_WORKLOG_DIR
        entries == collect_entries(listing, worklog_dir)
    IN  IF ~DirExists(st, verify_ENGRAM_DIR) \/ ~DirExists(st, worklog_dir)
        THEN VerifyFailure("NotInitialized", <<>>, <<>>)
        ELSE IF entries = <<>>
        THEN [ok |-> TRUE, kind |-> "Ok", entry_count |-> 0,
              first_entry |-> None, latest_entry |-> None, read |-> <<>>]
        ELSE VerifyLoop(st, SortBySequence(entries), 1, <<T("none")>>, None, None, <<>>)

EXIT_SUCCESS == 0
EXIT_CHAIN_BROKEN == 1
EXIT_NOT_INITIALIZED == 2

\* an exit code that tells success from failure only
ExitCodeOfFailure(result) == IF result.ok THEN EXIT_SUCCESS ELSE EXIT_CHAIN_BROKEN

\* the exit code of verify::run for a result of verify_chain
VerifyExitCode(result) ==
    IF result.ok THEN EXIT_SUCCESS
    ELSE IF result.kind = "NotInitialized" THEN EXIT_NOT_INITIALIZED
    ELSE EXIT_CHAIN_BROKEN

(***************************************************************************)
(* commands/status.rs                                                      *)
(***************************************************************************)
\* a status that takes a summary without a body for content
DraftStatusBySummary(st) ==
    IF st.draft = None THEN [kind |-> "NotFound", summary |-> <<>>]
    ELSE LET parsed == Draft_parse(st.draft[1])
         IN  IF parsed.ok THEN [kind |-> "HasContent", summary |-> parsed.summary]
             ELSE IF parsed.err = "EmptyBody"
             THEN [kind |-> "HasContent", summary |-> <<>>]
             ELSE [kind |-> "Empty", summary |-> <<>>]

get_draft_status(st) ==
    IF st.draft = None THEN [kind |-> "NotFound", summary |-> <<>>]
    ELSE LET parsed == Draft_parse(st.draft[1])
         IN  IF parsed.ok THEN [kind |-> "HasContent", summary |-> parsed.summary]
             ELSE [kind |-> "Empty", summary |-> <<>>]

get_worklog_info(st, worklog_path, listing) ==
    LET entries == collect_entries(listing, worklog_path)
        byLatest == SortBySequenceReversed(entries)
        content == ReadFile(st, byLatest[1].path)
        date == parse_date(content)
        summary == parse_summary(content)
    IN  IF ~DirExists(st, worklog_path) \/ entries = <<>>
        THEN [entry_count |-> 0, latest |-> None]
        ELSE [entry_count |-> Len(entries),
              latest |-> Some([filename |-> byLatest[1].filename,
                               date |-> IF date = None THEN <<T("unknown")>> ELSE date[1],
                               summary |-> IF summary = None THEN <<T("No summary")>>
                                           ELSE summary[1]])]

\* run_status_in_dir: what it prints of the store st of base_dir, for the
\* listing its scan of the worklog directory gets; the chain it reports is
\* that of verify_chain(), which reads the store cwd of the working
\* directory, whatever base_dir is
run_status_in_dir(st, cwd, listing, verifyListing) ==
    IF ~DirExists(st, status_ENGRAM_DIR) \/ ~DirExists(st, status_WORKLOG_DIR)
    THEN [ok |-> FALSE, kind |-> "NotFound"]
    ELSE [ok |-> TRUE, kind |-> "Ok",
          worklog |-> get_worklog_info(st, status_WORKLOG_DIR, listing),
          draft |-> get_draft_status(st),
          chain |-> verify_chain_in_dir(cwd, verifyListing)]

(***************************************************************************)
(* commands/init.rs                                                        *)
(***************************************************************************)
\* InitOptions
InitOptions == [warp : BOOLEAN, claude : BOOLEAN, junie : BOOLEAN, agents : BOOLEAN, all : BOOLEAN]

any_flag_set(options) ==
    options.warp \/ options.claude \/ options.junie \/ options.agents \/ options.all

\* the files run_init_in_dir writes into .engram besides draft.md and
\* SUMMARY.md
InitStoreFiles == {".engram/AGENTS.md", ".engram/.gitignore", ".engram/.gitattributes"}

\* write_wrappers: the two wrappers exist when it returns, written or kept
write_wrappers == {"engram", "engram.cmd"}

\* handle_warp_file, handle_claude_file, handle_root_agents_file: the file
\* exists when handle_directive_file returns, created, appended to or kept
handle_warp_file == {"WARP.md"}
handle_claude_file == {"CLAUDE.md"}
handle_root_agents_file == {"AGENTS.md"}

\* handle_junie_file: the directory and its guidelines.md
handle_junie_file == {".junie", ".junie/guidelines.md"}

\* handle_root_level_files: the instruction files of the project root that
\* exist when it returns, for the paths other that exist when it is called
handle_root_level_files(other, options) ==
    IF any_flag_set(options)
    THEN (IF options.warp THEN handle_warp_file ELSE {})
         \cup (IF options.claude THEN handle_claude_file ELSE {})
         \cup (IF options.junie THEN handle_junie_file ELSE {})
         \cup (IF options.agents THEN handle_root_agents_file ELSE {})
    ELSE LET warp_exists == "WARP.md" \in other
             claude_exists == "CLAUDE.md" \in other
             junie_dir_exists == ".junie" \in other
         IN  (IF warp_exists THEN handle_warp_file ELSE {})
             \cup (IF claude_exists THEN handle_claude_file ELSE {})
             \cup (IF junie_dir_exists THEN handle_junie_file ELSE {})
             \cup (IF ~warp_exists /\ ~claude_exists /\ ~junie_dir_exists
                   THEN handle_root_agents_file ELSE {})

\* an init that does not look for an existing store
InitOverwrites(st, other, options) ==
    [ok |-> TRUE, kind |-> "Ok",
     store |-> [st EXCEPT !.dirs = @ \cup {init_ENGRAM_DIR, init_WORKLOG_DIR},
                          !.draft = Some(DRAFT_TEMPLATE),
                          !.summary[init_WORKLOG_DIR] = Some(SUMMARY_TEMPLATE)],
     other |-> InitStoreFiles \cup write_wrappers \cup handle_root_level_files(other, options)]

\* run_init_in_dir: what it returns, the store it leaves and the other paths
\* it has written or found written, in a project directory that holds the
\* paths other
run_init_in_dir(st, other, options) ==
    IF DirExists(st, init_ENGRAM_DIR)
    THEN [ok |-> FALSE, kind |-> "AlreadyInitialized", store |-> st, other |-> {}]
    ELSE [ok |-> TRUE, kind |-> "Ok",
          store |-> [st EXCEPT !.dirs = @ \cup {init_ENGRAM_DIR, init_WORKLOG_DIR},
                               !.draft = Some(DRAFT_TEMPLATE),
                               !.summary[init_WORKLOG_DIR] = Some(SUMMARY_TEMPLATE)],
          other |-> InitStoreFiles \cup write_wrappers
                      \cup handle_root_level_files(other, options)]

\* InitOptions::default()
NoFlags == [warp |-> FALSE, claude |-> FALSE, junie |-> FALSE, agents |-> FALSE, all |-> FALSE]

\* the options the tests of init.rs call run_init_in_dir with: none, one
\* flag, every flag (the literal of main has no field claude and is not
\* accepted by the compiler, so that no options come from the command line)
TestOptions ==
    {NoFlags,
     [NoFlags EXCEPT !.warp = TRUE],
     [NoFlags EXCEPT !.claude = TRUE],
     [NoFlags EXCEPT !.junie = TRUE],
     [NoFlags EXCEPT !.agents = TRUE],
     [warp |-> TRUE, claude |-> TRUE, junie |-> TRUE, agents |-> TRUE, all |-> TRUE]}


(***************************************************************************)
(* Inputs.                                                                 *)
(***************************************************************************)
Days == {"2025-06-12", "2025-06-13"}

\* what Utc::now() may return
Now(day) == [day |-> day, time |-> "14:32:07Z"]

\* a draft as the tests of commit.rs write it
FilledDraft(summary, body) ==
    <<OpenTag, T(summary), CloseTag, NL, NL, T("## Intent"), NL, T(body)>>

FirstDraft == FilledDraft("First commit", "First work session")
SecondDraft == FilledDraft("Second commit", "Second work session")

\* test_commit_fails_if_draft_empty_body
CommentOnlyDraft ==
    <<OpenTag, T("Test summary"), CloseTag, NL, NL, OpenComment, T(" just comments "), CloseComment>>

\* a draft without the summary tag
NoTagDraft == <<T("## Intent"), NL, T("Some content here")>>

\* a draft that ends with its summary
SummaryOnlyDraft == <<OpenTag, T("Test summary"), CloseTag, NL>>

\* what the agent may leave in draft.md
DraftDocs == {DRAFT_TEMPLATE, FirstDraft, SecondDraft, CommentOnlyDraft}

\* the same, and the drafts that fail validation in the other ways
AllDraftDocs == DraftDocs \cup {NoTagDraft, SummaryOnlyDraft}

(***************************************************************************)
(* The commands as actions on the file system.                             *)
(***************************************************************************)
SetStore(st) ==
    /\ fsDirs' = st.dirs
    /\ fsEntries' = st.entries
    /\ fsSummary' = st.summary
    /\ fsDraft' = st.draft

StoreUnchanged == UNCHANGED <<fsDirs, fsEntries, fsSummary, fsDraft>>

\* run() on one of the given options
RunInitWith(choices) ==
    \E options \in choices :
        LET r == run_init_in_dir(Store, fsOther, options)
        IN  /\ SetStore(r.store)
            /\ fsOther' = fsOther \cup r.other
            /\ last' = [op |-> "init", ok |-> r.ok, kind |-> r.kind]
            /\ UNCHANGED <<committed, nValid, foreign>>

\* init with the options of the tests of init.rs
RunInitAnyFlags == RunInitWith(TestOptions)

\* init without a flag
RunInit == RunInitWith({NoFlags})

\* the agent edits .engram/draft.md
WriteDraft(docs) ==
    \E doc \in docs :
        /\ DirExists(Store, ".engram")
        /\ fsDraft # Some(doc)
        /\ fsDraft' = Some(doc)
        /\ last' = [op |-> "draft"]
        /\ UNCHANGED <<fsDirs, fsEntries, fsSummary, fsOther, committed, nValid, foreign>>

AgentWritesDraft == WriteDraft(DraftDocs)

\* .engram/history and its SUMMARY.md are made by hand, as setup_engram_dir
\* of commit.rs makes them: no command creates that directory
MakeHistoryDir ==
    /\ DirExists(Store, ".engram")
    /\ ~DirExists(Store, commit_HISTORY_DIR)
    /\ fsDirs' = fsDirs \cup {commit_HISTORY_DIR}
    /\ fsSummary' = [fsSummary EXCEPT ![commit_HISTORY_DIR] = Some(SUMMARY_TEMPLATE)]
    /\ last' = [op |-> "mkdir"]
    /\ UNCHANGED <<fsEntries, fsDraft, fsOther, committed, nValid, foreign>>

\* an entry written by hand, as the tests write them: a first entry, or one
\* linked to the entry written by hand before it
HandEntryContent(n, previous) ==
    EntryContent_to_string(
        [summary |-> <<T("Entry"), SP, DigitTok(n)>>, previous |-> previous,
         date |-> Now("2025-06-12"), body |-> <<T("Body"), SP, DigitTok(n)>>])

\* an entry file is placed in .engram/history by hand before the first
\* commit: named as test_commit_success_subsequent_entry names it
\* (001_a1b2c3d4.md) or as the tests of verify.rs do (000001_<short hash>.md)
SeedEntry ==
    \E sixDigits \in BOOLEAN :
        LET n == Len(foreign) + 1
            content == HandEntryContent(n,
                           IF foreign = <<>> THEN <<T("none")>>
                           ELSE sha256_hex(foreign[Len(foreign)].content))
            name == IF sixDigits
                    THEN FormatPadded(n, FilenameDigits) \o <<T("_")>>
                           \o sha256_short(content) \o <<T(".md")>>
                    ELSE FormatPadded(n, SequenceWidth) \o <<T("_"), HandHash8, T(".md")>>
        IN  /\ DirExists(Store, commit_HISTORY_DIR)
            /\ nValid = 0
            /\ Len(foreign) < MaxSeeds
            /\ fsEntries' = WriteEntryFile(fsEntries, commit_HISTORY_DIR, name, content)
            /\ foreign' = Append(foreign, [dir |-> commit_HISTORY_DIR, name |-> name,
                                           sequence |-> n, content |-> content,
                                           now |-> Some(content), tamper |-> "none"])
            /\ last' = [op |-> "seed"]
            /\ UNCHANGED <<fsDirs, fsSummary, fsDraft, fsOther, committed, nValid>>

\* whether commit would get past the validation of the draft
DraftIsValid(st) ==
    /\ DirExists(st, commit_ENGRAM_DIR)
    /\ st.draft # None
    /\ Draft_parse(st.draft[1]).ok

\* engram commit
RunCommit ==
    \E day \in Days, listing \in HeadListings(Store, commit_HISTORY_DIR) :
        LET r == run_commit_in_dir(Store, Now(day), listing)
        IN  /\ DraftIsValid(Store) => nValid < MaxCommits
            /\ SetStore(r.store)
            /\ nValid' = IF DraftIsValid(Store) THEN nValid + 1 ELSE nValid
            /\ committed' = IF r.ok
                            THEN Append(committed,
                                     [sequence |-> r.sequence, filename |-> r.filename,
                                      content |-> r.content, previous |-> r.previous])
                            ELSE committed
            /\ last' = IF r.ok
                       THEN [op |-> "commit", ok |-> TRUE, kind |-> r.kind, detail |-> r.detail,
                             filename |-> r.filename, summary |-> r.summary,
                             previous |-> r.previous]
                       ELSE [op |-> "commit", ok |-> FALSE, kind |-> r.kind, detail |-> r.detail]
            /\ UNCHANGED <<fsOther, foreign>>

\* engram verify
RunVerify ==
    \E listing \in Listings(Store, verify_WORKLOG_DIR) :
        /\ last' = [op |-> "verify", result |-> verify_chain_in_dir(Store, listing),
                      exit |-> VerifyExitCode(verify_chain_in_dir(Store, listing))]
        /\ StoreUnchanged
        /\ UNCHANGED <<fsOther, committed, nValid, foreign>>

\* engram status: run() gives run_status_in_dir the working directory
RunStatus ==
    \E listing \in HeadListings(Store, status_WORKLOG_DIR),
       verifyListing \in Listings(Store, verify_WORKLOG_DIR) :
        /\ last' = [op |-> "status", result |-> run_status_in_dir(Store, Store, listing, verifyListing)]
        /\ StoreUnchanged
        /\ UNCHANGED <<fsOther, committed, nValid, foreign>>

(***************************************************************************)
(* Spec: the commands run one after another in a project directory that    *)
(* starts without a store.                                                 *)
(***************************************************************************)
Init ==
    /\ fsDirs = {}
    /\ fsEntries = [d \in EntryDirs |-> {}]
    /\ fsSummary = [d \in EntryDirs |-> None]
    /\ fsDraft = None
    /\ fsOther = {}
    /\ last = [op |-> "none"]
    /\ committed = <<>>
    /\ nValid = 0
    /\ foreign = <<>>

Next ==
    \/ RunInit
    \/ AgentWritesDraft
    \/ MakeHistoryDir
    \/ SeedEntry
    \/ RunCommit
    \/ RunVerify
    \/ RunStatus

Spec == Init /\ [][Next]_vars


(***************************************************************************)
(* SpecVerify: a chain is written by hand into .engram/worklog, as the     *)
(* tests of verify.rs write it, then entries of it are changed or removed, *)
(* and verify runs at any point.  foreign lists the entries in the order   *)
(* of writing: content is what was written, now what the file holds.       *)
(***************************************************************************)
\* by how much the sequence of a further entry exceeds the highest one: the
\* chain starts at 000001 and may have gaps
Steps == {1, 2}

\* the values a by-hand change gives the Previous header: well formed ones
\* and one the pattern of parse_previous_hash rejects
PreviousValues == {T("none"), ZeroHash64, T("xyz")}

\* content with the value of its Previous header replaced
ReplacePrevious(content, value) ==
    [content EXCEPT ![Find(content, T("Previous: ")) + 1] = value]

\* content without its Previous header line
DropPrevious(content) ==
    LET n == Find(content, T("Previous: "))
    IN  SubSeq(content, 1, n - 1) \o SubSeq(content, n + 3, Len(content))

\* content with text added to its body
ExtendBody(content) == content \o <<SP, T("tampered")>>

Untampered == \A i \in 1..Len(foreign) : foreign[i].tamper = "none"

TamperCount == Cardinality({i \in 1..Len(foreign) : foreign[i].tamper # "none"})

\* an entry written by hand whose body quotes a header line
QuotingEntryContent(n, previous) ==
    EntryContent_to_string(
        [summary |-> <<T("Entry"), SP, DigitTok(n)>>, previous |-> previous,
         date |-> Now("2025-06-12"),
         body |-> <<T("Body"), SP, DigitTok(n), NL, T("Previous: ")>> \o NoneLink])

\* a correctly linked entry is added to the chain
WriteByHand(quoting) ==
    \E step \in Steps :
        LET n == IF foreign = <<>> THEN 1 ELSE foreign[Len(foreign)].sequence + step
            previous == IF foreign = <<>> THEN NoneLink
                        ELSE sha256_hex(foreign[Len(foreign)].content)
            content == IF quoting THEN QuotingEntryContent(n, previous)
                       ELSE HandEntryContent(n, previous)
            name == FormatPadded(n, FilenameDigits) \o <<T("_")>>
                      \o sha256_short(content) \o <<T(".md")>>
        IN  /\ DirExists(Store, verify_WORKLOG_DIR)
            /\ Len(foreign) < MaxEntries
            /\ Untampered
            /\ fsEntries' = WriteEntryFile(fsEntries, verify_WORKLOG_DIR, name, content)
            /\ foreign' = Append(foreign, [dir |-> verify_WORKLOG_DIR, name |-> name,
                                           sequence |-> n, content |-> content,
                                           now |-> Some(content), tamper |-> "none"])
            /\ last' = [op |-> "write"]
            /\ UNCHANGED <<fsDirs, fsSummary, fsDraft, fsOther, committed, nValid>>

HandWriteEntry == WriteByHand(FALSE)

\* the file of entry i is rewritten with other content under the same name
Rewrite(i, kind, content) ==
    /\ foreign[i].tamper = "none"
    /\ TamperCount < MaxTampers
    /\ content # foreign[i].content
    /\ fsEntries' = WriteEntryFile(fsEntries, foreign[i].dir, foreign[i].name, content)
    /\ foreign' = [foreign EXCEPT ![i].now = Some(content), ![i].tamper = kind]
    /\ last' = [op |-> kind]
    /\ UNCHANGED <<fsDirs, fsSummary, fsDraft, fsOther, committed, nValid>>

TamperBody ==
    \E i \in 1..Len(foreign) : Rewrite(i, "body", ExtendBody(foreign[i].content))

TamperPrevious ==
    \E i \in 1..Len(foreign), value \in PreviousValues :
        Rewrite(i, "previous", ReplacePrevious(foreign[i].content, value))

RemovePreviousLine ==
    \E i \in 1..Len(foreign) : Rewrite(i, "noprevious", DropPrevious(foreign[i].content))

\* the file of entry i is deleted
RemoveEntry ==
    \E i \in 1..Len(foreign) :
        /\ foreign[i].tamper = "none"
        /\ TamperCount < MaxTampers
        /\ fsEntries' = [fsEntries EXCEPT ![foreign[i].dir] =
                            {f \in @ : f.name # foreign[i].name}]
        /\ foreign' = [foreign EXCEPT ![i].now = None, ![i].tamper = "removed"]
        /\ last' = [op |-> "removed"]
        /\ UNCHANGED <<fsDirs, fsSummary, fsDraft, fsOther, committed, nValid>>

\* the store setup_engram_dir of verify.rs makes
InitVerify ==
    /\ fsDirs = {verify_ENGRAM_DIR, verify_WORKLOG_DIR}
    /\ fsEntries = [d \in EntryDirs |-> {}]
    /\ fsSummary = [d \in EntryDirs |-> None]
    /\ fsDraft = None
    /\ fsOther = {}
    /\ last = [op |-> "none"]
    /\ committed = <<>>
    /\ nValid = 0
    /\ foreign = <<>>

NextVerify ==
    \/ HandWriteEntry
    \/ TamperBody
    \/ TamperPrevious
    \/ RemovePreviousLine
    \/ RemoveEntry
    \/ RunVerify

SpecVerify == InitVerify /\ [][NextVerify]_vars

(***************************************************************************)
(* SpecStatus: verify and status run on a store whose chain was written by *)
(* hand, some entries of it changed afterwards, while the agent edits the  *)
(* draft.                                                                  *)
(***************************************************************************)
NextStatus ==
    \/ HandWriteEntry
    \/ TamperBody
    \/ AgentWritesDraft
    \/ RunVerify
    \/ RunStatus

SpecStatus == InitVerify /\ [][NextStatus]_vars


(***************************************************************************)
(* SpecCommit: commit on every kind of draft, in a project directory that  *)
(* starts empty or as a test of commit.rs sets it up.                      *)
(***************************************************************************)
AgentWritesAnyDraft == WriteDraft(AllDraftDocs)

\* the files and directories a test has made by hand
HandMade(dirs, summary, draft) ==
    /\ fsDirs = dirs
    /\ fsEntries = [d \in EntryDirs |-> {}]
    /\ fsSummary = [d \in EntryDirs |-> IF d = commit_HISTORY_DIR THEN summary ELSE None]
    /\ fsDraft = draft
    /\ fsOther = {}
    /\ last = [op |-> "none"]
    /\ committed = <<>>
    /\ nValid = 0
    /\ foreign = <<>>

\* setup_engram_dir of the tests of commit.rs
setup_engram_dir ==
    HandMade({".engram", commit_HISTORY_DIR}, Some(SUMMARY_TEMPLATE), Some(DRAFT_TEMPLATE))

\* the directory of test_commit_fails_if_draft_missing
DraftMissingDir == HandMade({".engram", commit_HISTORY_DIR}, None, None)

InitCommit == Init \/ setup_engram_dir \/ DraftMissingDir

NextCommit ==
    \/ RunInit
    \/ MakeHistoryDir
    \/ AgentWritesAnyDraft
    \/ RunCommit

SpecCommit == InitCommit /\ [][NextCommit]_vars

(***************************************************************************)
(* SpecInit: init with every choice of flags, in a project directory that  *)
(* starts empty, with an instruction file of an agent, or with a store.    *)
(***************************************************************************)
\* the project directories of the tests of the detection mode of init.rs:
\* no store, and a WARP.md, a CLAUDE.md or a .junie directory
AgentFilesDir ==
    \E found \in {{"WARP.md"}, {"CLAUDE.md"}, {".junie"}} :
        /\ fsDirs = {}
        /\ fsEntries = [d \in EntryDirs |-> {}]
        /\ fsSummary = [d \in EntryDirs |-> None]
        /\ fsDraft = None
        /\ fsOther = found
        /\ last = [op |-> "none"]
        /\ committed = <<>>
        /\ nValid = 0
        /\ foreign = <<>>

InitProject == Init \/ AgentFilesDir \/ setup_engram_dir

NextInit ==
    \/ RunInitAnyFlags
    \/ AgentWritesDraft
    \/ MakeHistoryDir
    \/ RunCommit

SpecInit == InitProject /\ [][NextInit]_vars


(***************************************************************************)
(* SpecVerifyDirs: as SpecVerify, in a project directory that starts with  *)
(* both directories, with none (test_verify_fails_if_not_initialized) or   *)
(* with .engram alone (test_verify_fails_if_history_missing).              *)
(***************************************************************************)
InitVerifyDirs == InitVerify \/ Init \/ HandMade({verify_ENGRAM_DIR}, None, None)

SpecVerifyDirs == InitVerifyDirs /\ [][NextVerify]_vars


(***************************************************************************)
(* SpecCodec: the entry codec on its own.  An entry is drawn, rendered by  *)
(* impl Display for EntryContent, and its header fields are read back by   *)
(* the parsers of chain.rs.                                                *)
(***************************************************************************)
CodecSummaries ==
    {<<T("Fix login")>>,
     <<T("Summary: "), T("nested")>>,
     <<T("Previous: "), T("none")>>,
     <<SP, T("padded"), SP>>,
     <<T("Fix"), CR, T("login")>>,
     <<T("Fix login"), CR>>}

CodecPrevious == {NoneLink, <<ZeroHash64>>, sha256_hex(<<T("Entry")>>)}

\* bodies: plain text, no text, lines that read like header lines
CodecBodies ==
    {<<T("## Intent"), NL, T("Body")>>,
     <<>>,
     <<T("Summary: "), T("Other summary"), NL,
       T("Previous: "), T("none"), NL,
       T("Date: "), T("1999-01-01T00:00:00Z")>>,
     <<T("text"), NL, T("Previous: "), ZeroHash64, CR, NL, T("Summary: "), T("Fix login"), NL>>}

CodecEntries ==
    [summary : CodecSummaries, previous : CodecPrevious,
     date : {Now(day) : day \in Days}, body : CodecBodies]

InitCodec ==
    /\ fsDirs = {}
    /\ fsEntries = [d \in EntryDirs |-> {}]
    /\ fsSummary = [d \in EntryDirs |-> None]
    /\ fsDraft = None
    /\ fsOther = {}
    /\ last \in [op : {"entry"}, entry : CodecEntries]
    /\ committed = <<>>
    /\ nValid = 0
    /\ foreign = <<>>

\* EntryContent::to_string
Encode ==
    /\ last.op = "entry"
    /\ last' = [op |-> "encode", entry |-> last.entry,
                text |-> EntryContent_to_string(last.entry)]
    /\ UNCHANGED <<fsDirs, fsEntries, fsSummary, fsDraft, fsOther, committed, nValid, foreign>>

\* parse_summary, parse_previous_hash and parse_date on the rendered text
Decode ==
    /\ last.op = "encode"
    /\ last' = [op |-> "decode", entry |-> last.entry, text |-> last.text,
                summary |-> parse_summary(last.text),
                previous |-> parse_previous_hash(last.text),
                date |-> parse_date(last.text)]
    /\ UNCHANGED <<fsDirs, fsEntries, fsSummary, fsDraft, fsOther, committed, nValid, foreign>>

NextCodec ==
    \/ Encode
    \/ Decode

SpecCodec == InitCodec /\ [][NextCodec]_vars


(***************************************************************************)
(* SpecIndex: the index on its own.  Rows are appended to the header init  *)
(* writes, and the file is read back.                                      *)
(***************************************************************************)
\* what stands between the tags of a draft
IndexSummaryTexts ==
    {<<T("First commit")>>,
     <<T("Entry"), SP, DigitTok(1)>>,
     <<T("lexer"), SP, PIPE, SP, T("parser")>>,
     <<T("a"), PIPE, T("b")>>,
     <<PIPE, SP, T("piped")>>}

\* the summaries Draft::parse gives for them
IndexSummaries ==
    {Draft_parse(<<OpenTag>> \o text \o <<CloseTag, NL, T("Body")>>).summary :
        text \in IndexSummaryTexts}

\* names of entry files, as commit and the tests write them
IndexFilenames ==
    {EntryFilename(1, <<HandHash8>>),
     FormatPadded(2, FilenameDigits) \o <<T("_"), HandHash8, T(".md")>>}

MaxRows == 2   \* rows appended to one index

IndexPairs == {<<f, summary>> : f \in IndexFilenames, summary \in IndexSummaries}

RowSeqs == UNION {[1..n -> IndexPairs] : n \in 0..MaxRows}

InitIndex ==
    /\ fsDirs = {}
    /\ fsEntries = [d \in EntryDirs |-> {}]
    /\ fsSummary = [d \in EntryDirs |-> None]
    /\ fsDraft = None
    /\ fsOther = {}
    /\ last \in [op : {"rows"}, rows : RowSeqs]
    /\ committed = <<>>
    /\ nValid = 0
    /\ foreign = <<>>

\* append_entry for each row in turn, on the header of the templates
RECURSIVE AppendAll(_, _)
AppendAll(content, rows) ==
    IF rows = <<>> THEN content
    ELSE AppendAll(append_entry(content, Head(rows)[1], Head(rows)[2]), Tail(rows))

AppendRows ==
    /\ last.op = "rows"
    /\ last' = [op |-> "appended", rows |-> last.rows,
                content |-> AppendAll(SUMMARY_TEMPLATE, last.rows)]
    /\ UNCHANGED <<fsDirs, fsEntries, fsSummary, fsDraft, fsOther, committed, nValid, foreign>>

ReadEntries ==
    /\ last.op = "appended"
    /\ last' = [op |-> "read", rows |-> last.rows, content |-> last.content,
                entries |-> read_entries(last.content)]
    /\ UNCHANGED <<fsDirs, fsEntries, fsSummary, fsDraft, fsOther, committed, nValid, foreign>>

NextIndex ==
    \/ AppendRows
    \/ ReadEntries

SpecIndex == InitIndex /\ [][NextIndex]_vars


(***************************************************************************)
(* SpecDraft: the draft parser on its own.  A document is drawn and        *)
(* Draft::parse is applied to it.                                          *)
(***************************************************************************)
\* what may stand before the summary tag
DocPrefixes == {<<>>, <<T("# Notes"), NL>>, <<CloseTag, NL>>}

\* the summary tag: absent, empty, blank, filled, padded, broken over lines,
\* not closed, an empty pair before a filled one
DocSummaries ==
    {<<>>,
     <<OpenTag, CloseTag>>,
     <<OpenTag, SP, CloseTag>>,
     <<OpenTag, T("Fix login"), CloseTag>>,
     <<OpenTag, SP, T("Fix login"), SP, CloseTag>>,
     <<OpenTag, NL, CloseTag>>,
     <<OpenTag, T("Fix login"), NL, CloseTag>>,
     <<OpenTag, T("Fix login")>>,
     <<OpenTag, CloseTag, OpenTag, T("Fix login"), CloseTag>>}

\* what may follow: nothing, blanks, text, comments on one line or over
\* several, a comment that is not closed
DocBodies ==
    {<<>>,
     <<NL, SP, NL>>,
     <<NL, NL, T("## Intent"), NL, T("Some content"), NL>>,
     <<NL, NL, OpenComment, T(" just comments "), CloseComment>>,
     <<NL, OpenComment, T(" note "), CloseComment, SP, T("Some content")>>,
     <<NL, OpenComment, T(" first line"), NL, T("second line "), CloseComment, NL>>,
     <<NL, OpenComment, T(" one "), CloseComment, NL, OpenComment, T(" two "), CloseComment>>,
     <<NL, OpenComment, T(" not closed")>>}

Documents == {p \o s \o b : p \in DocPrefixes, s \in DocSummaries, b \in DocBodies}

InitDraft ==
    /\ fsDirs = {}
    /\ fsEntries = [d \in EntryDirs |-> {}]
    /\ fsSummary = [d \in EntryDirs |-> None]
    /\ fsDraft = None
    /\ fsOther = {}
    /\ last \in [op : {"document"}, doc : Documents]
    /\ committed = <<>>
    /\ nValid = 0
    /\ foreign = <<>>

\* Draft::parse on the document
ParseDraft ==
    /\ last.op = "document"
    /\ last' = [op |-> "parse", doc |-> last.doc, result |-> Draft_parse(last.doc)]
    /\ UNCHANGED <<fsDirs, fsEntries, fsSummary, fsDraft, fsOther, committed, nValid, foreign>>

NextDraft == ParseDraft

SpecDraft == InitDraft /\ [][NextDraft]_vars


(***************************************************************************)
(* SpecVerifyQuoted: verify on chains written by hand in which the body of *)
(* an entry may quote a header line, and whose Previous headers are then   *)
(* changed or removed.  The quoting entry is the first of its chain.       *)
(***************************************************************************)
HandWriteQuotingEntry == foreign = <<>> /\ WriteByHand(TRUE)

NextVerifyQuoted ==
    \/ HandWriteEntry
    \/ HandWriteQuotingEntry
    \/ TamperPrevious
    \/ RemovePreviousLine
    \/ RunVerify

SpecVerifyQuoted == InitVerify /\ [][NextVerifyQuoted]_vars


(***************************************************************************)
(* SpecRace: commit on a store whose history directory holds entries       *)
(* placed by hand, one of which may be deleted by another process between  *)
(* the scan of get_next_sequence and the scan of get_previous_hash.        *)
(***************************************************************************)
\* the store without one file of the history directory
WithoutEntry(st, f) == [st EXCEPT !.entries[commit_HISTORY_DIR] = @ \ {f}]

\* the outcome r of a commit that allocated `sequence` and during which the
\* file f was deleted
RacedOutcome(r, f, sequence) ==
    /\ SetStore(r.store)
    /\ nValid' = nValid + 1
    /\ committed' = IF r.ok
                    THEN Append(committed,
                             [sequence |-> r.sequence, filename |-> r.filename,
                              content |-> r.content, previous |-> r.previous])
                    ELSE committed
    /\ last' = [op |-> "commit", ok |-> r.ok, kind |-> r.kind, detail |-> r.detail,
                removed |-> f, sequence |-> sequence]
    /\ UNCHANGED <<fsOther, foreign>>

RacedCommit ==
    \E day \in Days, f \in fsEntries[commit_HISTORY_DIR] :
      \E seen \in HeadListings(Store, commit_HISTORY_DIR),
         listing \in HeadListings(WithoutEntry(Store, f), commit_HISTORY_DIR) :
        /\ nValid < MaxCommits
        /\ DraftIsValid(Store)
        /\ RacedOutcome(run_commit_between_scans(seen, WithoutEntry(Store, f), Now(day), listing),
                        f, get_next_sequence(Store, commit_HISTORY_DIR, seen))

NextRace ==
    \/ RunInit
    \/ AgentWritesDraft
    \/ MakeHistoryDir
    \/ SeedEntry
    \/ RacedCommit

SpecRace == Init /\ [][NextRace]_vars


(***************************************************************************)
(* SpecTamper: entries are committed, and the content of an entry file     *)
(* commit has written is changed in place; verify runs at any point.       *)
(* foreign lists the files changed: content is what commit wrote, now what *)
(* the file was made to hold.                                              *)
(***************************************************************************)
TamperCommitted ==
    \E i \in DOMAIN committed, f \in fsEntries[commit_HISTORY_DIR] :
        /\ Len(foreign) < MaxTampers
        /\ committed[i].filename = f.name
        /\ committed[i].content = f.content
        /\ fsEntries' = WriteEntryFile(fsEntries, commit_HISTORY_DIR, f.name,
                                       ExtendBody(f.content))
        /\ foreign' = Append(foreign, [dir |-> commit_HISTORY_DIR, name |-> f.name,
                                       sequence |-> committed[i].sequence,
                                       content |-> f.content,
                                       now |-> Some(ExtendBody(f.content)),
                                       tamper |-> "body"])
        /\ last' = [op |-> "body"]
        /\ UNCHANGED <<fsDirs, fsSummary, fsDraft, fsOther, committed, nValid>>

NextTamper ==
    \/ RunInit
    \/ AgentWritesDraft
    \/ MakeHistoryDir
    \/ RunCommit
    \/ TamperCommitted
    \/ RunVerify

SpecTamper == Init /\ [][NextTamper]_vars


(***************************************************************************)
(* SpecWidth: commit on a store whose history directory holds, placed by   *)
(* hand, the entry of the last sequence number that fits a width: the 3    *)
(* digits commit pads its names to, or the 6 digits from_filename reads.   *)
(***************************************************************************)
\* the highest number of `width` decimal digits
LastOfWidth(width) == 10 ^ width - 1

\* the content of the entry placed by hand
WidthEntryContent ==
    EntryContent_to_string(
        [summary |-> <<T("Entry")>>, previous |-> NoneLink,
         date |-> Now("2025-06-12"), body |-> <<T("Body")>>])

\* setup_engram_dir of commit.rs, and an entry file of sequence n named as
\* from_filename wants it
InitWidth ==
    \E width \in {SequenceWidth, FilenameDigits} :
        /\ fsDirs = {".engram", commit_HISTORY_DIR}
        /\ fsEntries = [d \in EntryDirs |->
                           IF d = commit_HISTORY_DIR
                           THEN {[name |-> FormatPadded(LastOfWidth(width), FilenameDigits)
                                             \o <<T("_")>> \o sha256_short(WidthEntryContent)
                                             \o <<T(".md")>>,
                                  content |-> WidthEntryContent]}
                           ELSE {}]
        /\ fsSummary = [d \in EntryDirs |->
                           IF d = commit_HISTORY_DIR THEN Some(SUMMARY_TEMPLATE) ELSE None]
        /\ fsDraft = Some(DRAFT_TEMPLATE)
        /\ fsOther = {}
        /\ last = [op |-> "none"]
        /\ committed = <<>>
        /\ nValid = 0
        /\ foreign = <<>>

NextWidth ==
    \/ AgentWritesDraft
    \/ RunCommit

SpecWidth == InitWidth /\ [][NextWidth]_vars


(***************************************************************************)
(* SpecDraftStatus: status and commit on every kind of draft, in a project *)
(* directory that starts empty or with a store whose draft.md is missing.  *)
(***************************************************************************)
\* a store without draft.md (test_get_draft_status_not_found)
StoreWithoutDraft == HandMade({status_ENGRAM_DIR, status_WORKLOG_DIR}, None, None)

InitDraftStatus == Init \/ StoreWithoutDraft

NextDraftStatus ==
    \/ RunInit
    \/ AgentWritesAnyDraft
    \/ MakeHistoryDir
    \/ RunCommit
    \/ RunStatus

SpecDraftStatus == InitDraftStatus /\ [][NextDraftStatus]_vars


(***************************************************************************)
(* SpecAllocators: the two allocators of the code base on the same names.  *)
(* Both entry directories exist and hold files of the same names, drawn    *)
(* from the names the tests and commit give to entry files.                *)
(***************************************************************************)
AllocatorNames ==
    {FormatPadded(n, width) \o <<T("_"), HandHash8, T(".md")>> :
        n \in {1, 2, 10}, width \in {SequenceWidth, FilenameDigits}}
    \cup {[i \in 1..width |-> digit] \o <<T("_"), HandHash8, T(".md")>> :
            digit \in {T("U+0660"), T("U+0967")}, width \in {ListedDigits}}
    \cup {[i \in 1..FilenameDigits |-> T("U+0967")] \o <<T("_"), HandHash8, T(".md")>>}

AllocatorFiles(names) == {[name |-> n, content |-> HandEntryContent(1, NoneLink)] : n \in names}

InitAllocators ==
    \E names \in SUBSET AllocatorNames, index \in {None, Some(SUMMARY_TEMPLATE)} :
        /\ fsDirs = {".engram"} \cup EntryDirs
        /\ fsEntries = [d \in EntryDirs |-> AllocatorFiles(names)]
        /\ fsSummary = [d \in EntryDirs |-> index]
        /\ fsDraft = Some(DRAFT_TEMPLATE)
        /\ fsOther = {}
        /\ last = [op |-> "none"]
        /\ committed = <<>>
        /\ nValid = 0
        /\ foreign = <<>>

\* each allocator scans its directory
Allocate ==
    \E worklog \in HeadListings(Store, init_WORKLOG_DIR),
       history \in HeadListings(Store, commit_HISTORY_DIR) :
        /\ last.op = "none"
        /\ last' = [op |-> "allocate",
                    by_list |-> next_sequence_number(Store, worklog),
                    by_scan |-> get_next_sequence(Store, commit_HISTORY_DIR, history)]
        /\ UNCHANGED <<fsDirs, fsEntries, fsSummary, fsDraft, fsOther, committed, nValid, foreign>>

NextAllocators == Allocate

SpecAllocators == InitAllocators /\ [][NextAllocators]_vars


(***************************************************************************)
(* SpecCrash: as Spec, and a commit may be cut short (the process is       *)
(* killed) at one of its three writes.  fs::write opens the file, which    *)
(* empties it, and then writes the content: a commit is cut short between  *)
(* two writes (after fs::write of the entry file, or after append_entry) or *)
(* inside a write, which leaves the file of that write empty.  A commit cut *)
(* short before its first write changes nothing, one cut short after the   *)
(* last is a commit.                                                       *)
(***************************************************************************)
\* where a commit is cut short: after `done` of its writes, and, when torn,
\* after the next write has opened its file
CrashPoints ==
    {[done |-> 0, torn |-> TRUE],
     [done |-> 1, torn |-> FALSE], [done |-> 1, torn |-> TRUE],
     [done |-> 2, torn |-> FALSE], [done |-> 2, torn |-> TRUE]}

MaxCrashes == 1

\* the commits cut short so far
Crashes == {i \in DOMAIN committed : "crash" \in DOMAIN committed[i]}

\* fs::write opens its file with O_CREAT | O_TRUNC before it writes: the
\* store inside the write that follows `done` writes of the commit r on st
Opened(st, r, done) ==
    CASE done = 0 -> [st EXCEPT !.entries = WriteEntryFile(@, commit_HISTORY_DIR, r.filename, <<>>)]
      [] done = 1 -> [r.writes[1] EXCEPT !.summary[commit_HISTORY_DIR] = Some(<<>>)]
      [] done = 2 -> [r.writes[2] EXCEPT !.draft = Some(<<>>)]

\* the store is left as the commit r on st had it at the point
CutShort(st, r, point) ==
    /\ r.ok
    /\ SetStore(IF point.torn THEN Opened(st, r, point.done) ELSE r.writes[point.done])
    /\ nValid' = nValid + 1
    /\ committed' = Append(committed,
                         [sequence |-> r.sequence, filename |-> r.filename,
                          content |-> r.content, previous |-> r.previous,
                          crash |-> point.done, torn |-> point.torn])
    /\ last' = [op |-> "crash", point |-> point.done, torn |-> point.torn,
                filename |-> r.filename]
    /\ UNCHANGED <<fsOther, foreign>>

\* commits of valid drafts, cut short or not, in one behaviour of SpecCrash
MaxCrashCommits == 2

CrashedCommit ==
    \E day \in Days, listing \in HeadListings(Store, commit_HISTORY_DIR), point \in CrashPoints :
        /\ nValid < MaxCrashCommits
        /\ Cardinality(Crashes) < MaxCrashes
        /\ DraftIsValid(Store)
        /\ CutShort(Store, run_commit_in_dir(Store, Now(day), listing), point)

\* engram commit, while the commits of SpecCrash are not used up
CommitWithinCrashBound ==
    /\ DraftIsValid(Store) => nValid < MaxCrashCommits
    /\ RunCommit

NextCrash ==
    \/ RunInit
    \/ AgentWritesDraft
    \/ MakeHistoryDir
    \/ CommitWithinCrashBound
    \/ CrashedCommit
    \/ RunVerify

SpecCrash == Init /\ [][NextCrash]_vars

(***************************************************************************)
(* Notions the properties are stated with.                                 *)
(***************************************************************************)
\* the store is the one init created, and no entry file was written or
\* changed by hand
InitMadeStore == init_WORKLOG_DIR \in fsDirs /\ foreign = <<>>

\* the content stored under a name in an entry directory
StoredContent(dir, name) == (CHOOSE f \in fsEntries[dir] : f.name = name).content

\* the leading decimal digits of a filename, whatever their number
RECURSIVE LeadingDigits(_)
LeadingDigits(name) ==
    IF name # <<>> /\ IsAsciiDigit(Head(name)) THEN <<Head(name)>> \o LeadingDigits(Tail(name))
    ELSE <<>>

\* the sequence number a filename carries
NameSequence(name) == ParseDecimal(LeadingDigits(name))

\* the filenames a scan of the directory with from_filename finds
ScannedNames(dir) ==
    {name \in DirNames(Store, dir) : from_filename(name, dir) # None}

VerifyResults == {verify_chain_in_dir(Store, listing) : listing \in Listings(Store, verify_WORKLOG_DIR)}

(***************************************************************************)
(* C1.  Starting from a freshly initialized store, after any sequence of   *)
(* N >= 0 commits of valid drafts and no other modification of the store,  *)
(* every one of the N commits has succeeded and verify succeeds and        *)
(* reports entry_count = N.                                                *)
(***************************************************************************)
C1_VerifyCountsCommits ==
    InitMadeStore =>
        /\ Len(committed) = nValid
        /\ \A r \in VerifyResults : r.ok /\ r.entry_count = Len(committed)

(***************************************************************************)
(* C2.  The entries persisted into a store form a chain: the first entry   *)
(* persisted (sequence 1) holds the previous-link "none", and every entry  *)
(* a commit persists after another entry (sequence k > 1) holds the full   *)
(* digest of the stored content of the entry persisted before it (sequence *)
(* k-1).                                                                   *)
(***************************************************************************)
C2_CommitLinksToEntryBefore ==
    \A k \in 1..Len(committed) :
        LET link == parse_previous_hash(
                        StoredContent(commit_HISTORY_DIR, committed[k].filename))
            before == IF k > 1 THEN Some(committed[k - 1].filename)
                      ELSE IF foreign # <<>> THEN Some(foreign[Len(foreign)].name)
                      ELSE None
        IN  link = Some(IF before = None THEN NoneLink
                        ELSE sha256_hex(StoredContent(commit_HISTORY_DIR, before[1])))

(***************************************************************************)
(* C3.  On a store that starts with no entries the k-th successful commit  *)
(* is assigned sequence k, so the sequence numbers of the persisted        *)
(* entries are unique and strictly increasing in commit order.             *)
(***************************************************************************)
C3_SequenceFollowsCommitOrder ==
    foreign = <<>> => \A k \in 1..Len(committed) : committed[k].sequence = k

(***************************************************************************)
(* C4.  The filename of every entry commit persists, with sequence s and   *)
(* content c, is accepted by WorklogEntry::from_filename and parses back   *)
(* to the sequence s and the short hash sha256_short(c).                   *)
(***************************************************************************)
C4_FilenameParsesBack ==
    \A k \in 1..Len(committed) :
        LET e == committed[k]
            parsed == from_filename(e.filename, commit_HISTORY_DIR)
        IN  /\ parsed # None
            /\ parsed[1].sequence = e.sequence
            /\ parsed[1].short_hash = sha256_short(e.content)

(***************************************************************************)
(* C5.  On a store created by init, every entry file a successful commit   *)
(* persisted is found by the directory scan of verify, by that of status   *)
(* and by that of the next commit's sequence allocator.                    *)
(***************************************************************************)
C5_CommittedEntriesAreScanned ==
    init_WORKLOG_DIR \in fsDirs =>
        \A k \in 1..Len(committed) :
            /\ committed[k].filename \in ScannedNames(verify_WORKLOG_DIR)
            /\ committed[k].filename \in ScannedNames(status_WORKLOG_DIR)
            /\ committed[k].filename \in ScannedNames(commit_HISTORY_DIR)


(***************************************************************************)
(* The chain written by hand, as the properties of verify speak of it.     *)
(***************************************************************************)
\* the entries before entry k are as they were written
IntactBefore(k) == \A j \in 1..(k - 1) : foreign[j].tamper = "none"

\* the filenames of the entries 1..k, in ascending sequence
NamesUpTo(k) == [j \in 1..k |-> foreign[j].name]

\* the value the Previous header of a content holds, well formed or not
PreviousValue(content) == <<content[Find(content, T("Previous: ")) + 1]>>

\* the short hash a filename claims
ClaimedHash(name) == <<name[FilenameDigits + 2]>>

\* the entries whose file is still there, in ascending sequence
RECURSIVE PresentFrom(_)
PresentFrom(k) ==
    IF k > Len(foreign) THEN <<>>
    ELSE (IF foreign[k].now # None THEN <<foreign[k]>> ELSE <<>>) \o PresentFrom(k + 1)

Present == PresentFrom(1)

\* the entry at position p of a chain passes the checks of verify: its
\* Previous header is decodable and holds the digest of what the entry before
\* it now holds ("none" for the first), and its name holds the short digest of
\* what it now holds
Passes(chain, p) ==
    /\ parse_previous_hash(chain[p].now[1])
         = Some(IF p = 1 THEN NoneLink ELSE sha256_hex(chain[p - 1].now[1]))
    /\ sha256_short(chain[p].now[1]) = ClaimedHash(chain[p].name)

\* the positions of the failing entries
Failing(chain) == {p \in 1..Len(chain) : ~Passes(chain, p)}

\* the lowest of a nonempty set of numbers
Lowest(S) == CHOOSE p \in S : \A q \in S : p <= q

(***************************************************************************)
(* C6.  In a chain that verifies, once the body of an entry k is changed   *)
(* under an unchanged filename and Previous header, verify fails with      *)
(* HashMismatch naming entry k, carrying the recomputed short hash and the *)
(* hash the filename claims, and has read no entry after k.                *)
(***************************************************************************)
C6_BodyChangeIsHashMismatch ==
    last.op = "verify" =>
        \A k \in 1..Len(foreign) :
            (foreign[k].tamper = "body" /\ IntactBefore(k)) =>
                /\ ~last.result.ok
                /\ last.result.kind = "HashMismatch"
                /\ last.result.filename = foreign[k].name
                /\ last.result.content_hash = sha256_short(foreign[k].now[1])
                /\ last.result.filename_hash = ClaimedHash(foreign[k].name)
                /\ last.result.content_hash # last.result.filename_hash
                /\ last.result.read = NamesUpTo(k)

\* verify has run on a chain of three whose second entry had its body
\* changed and whose third entry was changed as well
C6_Witness ==
    /\ last.op = "verify"
    /\ Len(foreign) = 3
    /\ foreign[1].tamper = "none"
    /\ foreign[2].tamper = "body"
    /\ foreign[3].tamper = "previous"
    /\ last.result.kind = "HashMismatch"

(***************************************************************************)
(* C7 as stated.  In a chain that verifies, once the Previous value of an  *)
(* entry k is changed under an unchanged filename, verify fails with       *)
(* ChainBroken at entry k, expected being the full digest of entry k-1     *)
(* ("none" for the first entry) and found the altered value.               *)
(***************************************************************************)
C7_PreviousChangeIsChainBroken ==
    last.op = "verify" =>
        \A k \in 1..Len(foreign) :
            (foreign[k].tamper = "previous" /\ IntactBefore(k)) =>
                /\ last.result.kind = "ChainBroken"
                /\ last.result.filename = foreign[k].name
                /\ last.result.expected
                     = (IF k = 1 THEN NoneLink ELSE sha256_hex(foreign[k - 1].content))
                /\ last.result.found = PreviousValue(foreign[k].now[1])

(***************************************************************************)
(* C7 amended.  The same for a change of the Previous value to another     *)
(* well-formed value ("none" or 64 lowercase hexadecimal digits): verify   *)
(* fails with ChainBroken at entry k, with that expected and found, though *)
(* the filename hash of entry k no longer matches its content either: the  *)
(* link check comes first.  No entry after k is read.  After a change to a *)
(* value that is not well formed, when no line of the entry, the lines of  *)
(* its body included, reads "Previous: none" or "Previous: " and 64 hex    *)
(* digits, verify fails with MissingPreviousLine at entry k.               *)
(***************************************************************************)
C7_WellFormedPreviousChangeIsChainBroken ==
    last.op = "verify" =>
        \A k \in 1..Len(foreign) :
            /\ (/\ foreign[k].tamper = "previous"
                /\ PreviousLineMatches(<<T("Previous: ")>> \o PreviousValue(foreign[k].now[1]))
                /\ IntactBefore(k)) =>
                   /\ ~last.result.ok
                   /\ last.result.kind = "ChainBroken"
                   /\ last.result.filename = foreign[k].name
                   /\ last.result.expected
                        = (IF k = 1 THEN NoneLink ELSE sha256_hex(foreign[k - 1].content))
                   /\ last.result.found = PreviousValue(foreign[k].now[1])
                   /\ last.result.found # last.result.expected
                   /\ sha256_short(foreign[k].now[1]) # ClaimedHash(foreign[k].name)
                   /\ last.result.read = NamesUpTo(k)
            /\ (/\ foreign[k].tamper = "previous"
                /\ ~PreviousLineMatches(<<T("Previous: ")>> \o PreviousValue(foreign[k].now[1]))
                /\ \A i \in 1..Len(Lines(foreign[k].now[1])) :
                       ~PreviousLineMatches(Lines(foreign[k].now[1])[i])
                /\ IntactBefore(k)) =>
                   /\ ~last.result.ok
                   /\ last.result.kind = "MissingPreviousLine"
                   /\ last.result.filename = foreign[k].name
                   /\ last.result.read = NamesUpTo(k)

\* verify has run on a chain whose second entry had its Previous value
\* changed to "none", and on one whose first entry had it changed to a digest
C7_Witness ==
    /\ last.op = "verify"
    /\ last.result.kind = "ChainBroken"
    /\ Len(foreign) >= 2
    /\ foreign[1].tamper = "none"
    /\ foreign[2].tamper = "previous"
    /\ last.result.found = NoneLink
    /\ last.result.expected = sha256_hex(foreign[1].content)

(***************************************************************************)
(* C8.  Whatever the order in which the directory lists the files, verify  *)
(* reads the entries in ascending sequence: when no entry fails a check it *)
(* succeeds having read them all, otherwise the error names the            *)
(* lowest-sequence failing entry and the entries read are those up to it   *)
(* and no other.                                                           *)
(***************************************************************************)
C8_LowestFailingEntryIsReported ==
    last.op = "verify" =>
        IF Failing(Present) = {}
        THEN /\ last.result.ok
             /\ last.result.read = [j \in 1..Len(Present) |-> Present[j].name]
        ELSE /\ ~last.result.ok
             /\ last.result.filename = Present[Lowest(Failing(Present))].name
             /\ last.result.read = [j \in 1..Lowest(Failing(Present)) |-> Present[j].name]

\* verify has run on three entries of which the second and the third fail
C8_Witness ==
    /\ last.op = "verify"
    /\ Len(Present) = 3
    /\ Failing(Present) = {2, 3}
    /\ foreign[3].tamper # "none"
    /\ Len(last.result.read) = 2

(***************************************************************************)
(* C9.  Once one entry file is removed from a chain of N >= 1 entries that *)
(* verifies, verify does not report success.                               *)
(***************************************************************************)
C9_RemovalIsDetected ==
    (/\ last.op = "verify"
     /\ \E k \in 1..Len(foreign) : foreign[k].tamper = "removed"
     /\ \A k \in 1..Len(foreign) : foreign[k].tamper \in {"none", "removed"})
    => ~last.result.ok

\* the name of the scanned entry file of the lowest sequence number
LowestName(names) ==
    CHOOSE n \in names : \A m \in names : NameSequence(n) <= NameSequence(m)

\* the name of the scanned entry file of the highest sequence number
HighestName(names) ==
    CHOOSE n \in names : \A m \in names : NameSequence(n) >= NameSequence(m)

(***************************************************************************)
(* C10.  A verify that succeeds reports the number of entry files, the     *)
(* filename of the lowest-sequence entry as first and that of the          *)
(* highest-sequence entry as latest; on a store with no entry it succeeds  *)
(* with count 0 and neither a first nor a latest entry.                    *)
(***************************************************************************)
C10_SuccessReportsCountFirstLatest ==
    last.op = "verify" =>
        LET names == ScannedNames(verify_WORKLOG_DIR)
            r == last.result
        IN  /\ names = {} =>
                  r.ok /\ r.entry_count = 0 /\ r.first_entry = None /\ r.latest_entry = None
            /\ (r.ok /\ names # {}) =>
                  /\ r.entry_count = Cardinality(names)
                  /\ r.first_entry # None /\ r.first_entry[1][1] = LowestName(names)
                  /\ r.latest_entry # None /\ r.latest_entry[1][1] = HighestName(names)

\* verify has succeeded on a chain of three entries
C10_Witness ==
    /\ last.op = "verify"
    /\ last.result.ok
    /\ last.result.entry_count = 3
    /\ last.result.first_entry[1][1] = foreign[1].name
    /\ last.result.latest_entry[1][1] = foreign[3].name
    /\ foreign[3].sequence > 3

(***************************************************************************)
(* C11.  verify and status never change the store: directories, entry      *)
(* files, the index ledger and the draft are the same after the call as    *)
(* before it, whether it succeeds or fails; and a verify (a status) that   *)
(* follows a verify (a status) on the store so left returns the same       *)
(* result.                                                                 *)
(***************************************************************************)
C11_VerifyAndStatusReadOnly ==
    [][(last'.op \in {"verify", "status"}) =>
          /\ fsDirs' = fsDirs /\ fsEntries' = fsEntries
          /\ fsSummary' = fsSummary /\ fsDraft' = fsDraft /\ fsOther' = fsOther
          /\ (last.op = last'.op => last'.result = last.result)]_vars

\* status has run, reporting a failed chain, on a store with a draft a
\* commit would take and three entries of which the second was changed
C11_Witness ==
    /\ last.op = "status"
    /\ last.result.ok
    /\ last.result.chain.kind = "HashMismatch"
    /\ last.result.draft.kind = "HasContent"
    /\ last.result.worklog.entry_count = 3
    /\ foreign[2].tamper = "body"

(***************************************************************************)
(* The index as the properties of commit speak of it.                      *)
(***************************************************************************)
\* the rows append_entry has added to a SUMMARY.md: the file names they hold
IndexRowNames(content) ==
    LET rows == SelectSeq(Lines(content), LAMBDA l : l # <<>> /\ l[1] = T("| "))
    IN  [i \in DOMAIN rows |-> SubSeq(rows[i], 2, Find(rows[i], T(" | ")) - 1)]

\* the rows of the index commit appends to
CommitIndexRows ==
    IF fsSummary[commit_HISTORY_DIR] = None THEN <<>>
    ELSE IndexRowNames(fsSummary[commit_HISTORY_DIR][1])

\* C12: in every reachable state, the states left by a commit cut short
\* after any of its writes included, the index has at most as many rows as
\* there are entry files, and every row names an entry file that exists.
C12_IndexNeverAheadOfEntryFiles ==
    /\ Len(CommitIndexRows) <= Cardinality(fsEntries[commit_HISTORY_DIR])
    /\ \A i \in DOMAIN CommitIndexRows :
          \E f \in fsEntries[commit_HISTORY_DIR] : f.name = CommitIndexRows[i]

\* C13: after a commit cut short once its entry file is written (before the
\* index is appended), verify succeeds and counts the new entry with the
\* other entry files, and the commit after it takes the sequence number
\* following that entry and links to the digest of that entry.
C13_InterruptedCommitIsRecovered ==
    \A i \in Crashes :
        committed[i].crash = 1 =>
            /\ (i = Len(committed) /\ last.op = "verify") =>
                   /\ last.result.ok
                   /\ last.result.entry_count = Cardinality(fsEntries[commit_HISTORY_DIR])
            /\ (i < Len(committed)) =>
                   /\ committed[i + 1].sequence = committed[i].sequence + 1
                   /\ committed[i + 1].previous = sha256_hex(committed[i].content)

\* what SUMMARY.md of the directory commit writes to may hold instead
IndexDocs ==
    {<<>>,
     SUMMARY_TEMPLATE,
     append_entry(SUMMARY_TEMPLATE,
                  FormatPadded(9, FilenameDigits) \o <<T("_"), HandHash8, T(".md")>>,
                  <<T("Entry")>>)}

\* the store with another index in place of the one it has
WithIndex(st, doc) == [st EXCEPT !.summary[commit_HISTORY_DIR] = Some(doc)]

\* C14: the sequence number and the previous-link of a commit depend on the
\* entry files only: on a store with the same directories, entry files and
\* draft but another SUMMARY.md, under any listing order, commit succeeds
\* with the same sequence number and the same previous-link.
C14_SequenceAndLinkIgnoreIndex ==
    [][(last'.op = "commit" /\ last'.ok) =>
          \A doc \in IndexDocs, day \in Days :
            \A listing \in HeadListings(WithIndex(Store, doc), commit_HISTORY_DIR) :
              LET other == run_commit_in_dir(WithIndex(Store, doc), Now(day), listing)
                  this == committed'[Len(committed')]
              IN  /\ other.ok
                  /\ other.sequence = this.sequence
                  /\ other.previous = this.previous]_vars

\* a commit that linked to the entry before it, on an index that had rows
C14_Witness ==
    /\ last.op = "commit"
    /\ last.ok
    /\ last.previous # NoneLink
    /\ Len(CommitIndexRows) = 2

(***************************************************************************)
(* Commit on what cannot be committed.                                     *)
(***************************************************************************)
\* the drafts of AllDraftDocs that lack the summary tag, have an empty
\* summary, or have no body or a body of comments only
InvalidDraftDocs == {NoTagDraft, DRAFT_TEMPLATE, SummaryOnlyDraft, CommentOnlyDraft}

StoreFilesUnchanged == UNCHANGED <<fsDirs, fsEntries, fsSummary, fsDraft, fsOther>>

\* C15: a commit on an initialized store whose draft lacks the summary tag,
\* has an empty summary or has an empty or comment-only body returns an
\* InvalidData error and leaves every file and directory as it was.
C15_InvalidDraftIsRejected ==
    [][(/\ last'.op = "commit"
        /\ DirExists(Store, commit_ENGRAM_DIR)
        /\ fsDraft # None
        /\ fsDraft[1] \in InvalidDraftDocs) =>
          /\ ~last'.ok
          /\ last'.kind = "InvalidData"
          /\ StoreFilesUnchanged]_vars

\* a commit refused for its comment-only body on a store that holds entries
C15_Witness ==
    /\ last.op = "commit"
    /\ ~last.ok
    /\ last.kind = "InvalidData"
    /\ last.detail = "EmptyBody"
    /\ fsDraft = Some(CommentOnlyDraft)
    /\ Cardinality(fsEntries[commit_HISTORY_DIR]) = 2

\* C16: after every successful commit the draft is the empty template, and
\* a commit that follows a successful commit directly, the draft not having
\* been edited, fails with an InvalidData error and adds no entry file.
C16_OneDraftYieldsOneEntry ==
    [][/\ (last'.op = "commit" /\ last'.ok) => fsDraft' = Some(DRAFT_TEMPLATE)
       /\ (last.op = "commit" /\ last.ok /\ last'.op = "commit") =>
             /\ ~last'.ok
             /\ last'.kind = "InvalidData"
             /\ fsEntries' = fsEntries
             /\ fsSummary' = fsSummary
             /\ committed' = committed]_vars

\* the commit refused after the only successful one
C16_Witness ==
    /\ last.op = "commit"
    /\ ~last.ok
    /\ last.detail = "EmptySummary"
    /\ fsDraft = Some(DRAFT_TEMPLATE)
    /\ Len(committed) = 1
    /\ Len(CommitIndexRows) = 1
    /\ nValid = 1

\* C17: a commit where there is no .engram directory fails with a NotFound
\* error saying the store is not initialized, a commit on a store without
\* draft.md fails with the NotFound error "draft.md not found", and in both
\* cases no file or directory is created or changed.
C17_CommitNeedsStoreAndDraft ==
    [][(last'.op = "commit") =>
          /\ (commit_ENGRAM_DIR \notin fsDirs) =>
                /\ ~last'.ok
                /\ last'.kind = "NotFound"
                /\ last'.detail = "Engram not initialized"
                /\ StoreFilesUnchanged
          /\ (commit_ENGRAM_DIR \in fsDirs /\ fsDraft = None) =>
                /\ ~last'.ok
                /\ last'.kind = "NotFound"
                /\ last'.detail = "draft.md not found"
                /\ StoreFilesUnchanged]_vars

\* the commit refused on the store that has no draft.md
C17_Witness ==
    /\ last.op = "commit"
    /\ last.detail = "draft.md not found"
    /\ fsDirs = {".engram", commit_HISTORY_DIR}
    /\ fsDraft = None

(***************************************************************************)
(* C18.  verify returns NotInitialized and exits with 2 exactly when        *)
(* .engram or the entry directory it scans is missing; where both exist it  *)
(* returns ChainBroken, HashMismatch or MissingPreviousLine and exits with  *)
(* 1 when an entry fails a check, and succeeds with exit code 0 otherwise.  *)
(***************************************************************************)
DirectoryMissing == verify_ENGRAM_DIR \notin fsDirs \/ verify_WORKLOG_DIR \notin fsDirs

C18_VerifyOutcomes ==
    last.op = "verify" =>
        /\ (last.result.kind = "NotInitialized") <=> DirectoryMissing
        /\ (last.exit = 2) <=> DirectoryMissing
        /\ (~DirectoryMissing /\ Failing(Present) # {}) =>
              /\ last.result.kind \in {"ChainBroken", "HashMismatch", "MissingPreviousLine"}
              /\ last.exit = 1
        /\ (~DirectoryMissing /\ Failing(Present) = {}) =>
              /\ last.result.ok
              /\ last.exit = 0

\* verify has run where .engram exists and the entry directory does not
C18_Witness ==
    /\ last.op = "verify"
    /\ fsDirs = {verify_ENGRAM_DIR}
    /\ last.result.kind = "NotInitialized"
    /\ last.exit = 2

(***************************************************************************)
(* C19 as stated.  For every entry rendered from a non-empty summary        *)
(* without line feed, a previous-link "none" or of 64 hex digits, a         *)
(* timestamp and a body, the Summary, Previous and Date read back from the  *)
(* text are the rendered values, whatever lines the body holds.             *)
(***************************************************************************)
Decoded(entry) ==
    /\ last.summary = Some(entry.summary)
    /\ last.previous = Some(entry.previous)
    /\ last.date = Some(FormatDate(entry.date))

C19_CodecRoundTrip ==
    last.op = "decode" => Decoded(last.entry)

\* C19 for summaries that do not end with a carriage return: the Summary,
\* Previous and Date read back from the text are the rendered values,
\* whatever lines the body holds.
C19_CodecRoundTripWithoutFinalCR ==
    (last.op = "decode" /\ last.entry.summary[Len(last.entry.summary)] # CR) =>
        Decoded(last.entry)

\* an entry read back whose body holds lines that read like other headers
C19_Witness ==
    /\ last.op = "decode"
    /\ last.entry.summary = <<T("Previous: "), T("none")>>
    /\ last.entry.previous = sha256_hex(<<T("Entry")>>)
    /\ Len(Lines(last.entry.body)) = 3
    /\ last.previous = Some(last.entry.previous)

\* C20: init in a directory that already holds .engram fails with
\* AlreadyInitialized and leaves entry files, index, draft and every other
\* file and directory as they were.
C20_InitRefusesExistingStore ==
    [][(last'.op = "init" /\ init_ENGRAM_DIR \in fsDirs) =>
          /\ ~last'.ok
          /\ last'.kind = "AlreadyInitialized"
          /\ StoreFilesUnchanged]_vars

\* init refused on a store that holds an entry and a draft being written
C20_Witness ==
    /\ last.op = "init"
    /\ last.kind = "AlreadyInitialized"
    /\ fsDraft = Some(SecondDraft)
    /\ Cardinality(fsEntries[commit_HISTORY_DIR]) = 1
    /\ Len(CommitIndexRows) = 1

(***************************************************************************)
(* The sequence allocator, as the properties speak of it.                  *)
(***************************************************************************)
\* a filename of the form <digits>_<8-hex>.md
EntryPatternMatches(name) ==
    LET digits == LeadingDigits(name)
    IN  /\ digits # <<>>
        /\ Len(name) = Len(digits) + 3
        /\ name[Len(digits) + 1] = T("_")
        /\ IsHex8(name[Len(digits) + 2])
        /\ name[Len(digits) + 3] = T(".md")

\* the largest of a nonempty set of numbers
Highest(S) == CHOOSE p \in S : \A q \in S : q <= p

\* the sequence numbers of the filenames of a directory that have that form
PatternSequences(dir) ==
    {NameSequence(name) : name \in {n \in DirNames(Store, dir) : EntryPatternMatches(n)}}

\* C21: under every order in which the directory is listed, the sequence
\* allocator returns one more than the largest sequence number among the
\* filenames of the form <digits>_<8-hex>.md, 1 when there is none; other
\* filenames, SUMMARY.md among them, do not count.
C21_NextSequenceIsMaxPlusOne ==
    DirExists(Store, commit_HISTORY_DIR) =>
        \A listing \in Listings(Store, commit_HISTORY_DIR) :
            get_next_sequence(Store, commit_HISTORY_DIR, listing)
              = (IF PatternSequences(commit_HISTORY_DIR) = {} THEN 1
                 ELSE Highest(PatternSequences(commit_HISTORY_DIR)) + 1)

(***************************************************************************)
(* A draft document, as the properties of the draft parser speak of it.    *)
(***************************************************************************)
\* the positions of the first summary tag pair: the first opening tag that a
\* closing tag follows, and the first closing tag after it; <<0, 0>> when the
\* document has no pair
FirstPair(doc) ==
    IF \E i, j \in 1..Len(doc) : i < j /\ doc[i] = OpenTag /\ doc[j] = CloseTag
    THEN LET i == CHOOSE i \in 1..Len(doc) :
                      /\ doc[i] = OpenTag
                      /\ \E j \in (i + 1)..Len(doc) : doc[j] = CloseTag
                      /\ \A h \in 1..(i - 1) :
                            ~(doc[h] = OpenTag /\ \E j \in (h + 1)..Len(doc) : doc[j] = CloseTag)
             j == CHOOSE j \in (i + 1)..Len(doc) :
                      doc[j] = CloseTag /\ \A h \in (i + 1)..(j - 1) : doc[h] # CloseTag
         IN  <<i, j>>
    ELSE <<0, 0>>

HasPair(doc) == FirstPair(doc)[1] # 0

\* the text between the tags of the first pair, and the text after it
BetweenTags(doc) == SubSeq(doc, FirstPair(doc)[1] + 1, FirstPair(doc)[2] - 1)
AfterTags(doc) == SubSeq(doc, FirstPair(doc)[2] + 1, Len(doc))

\* the text without its comment spans <!-- ... -->, on one line or over several
RECURSIVE WithoutComments(_)
WithoutComments(text) ==
    IF \E i, j \in 1..Len(text) : i < j /\ text[i] = OpenComment /\ text[j] = CloseComment
    THEN LET i == CHOOSE i \in 1..Len(text) :
                      /\ text[i] = OpenComment
                      /\ \E j \in (i + 1)..Len(text) : text[j] = CloseComment
                      /\ \A h \in 1..(i - 1) :
                            ~(text[h] = OpenComment
                                /\ \E j \in (h + 1)..Len(text) : text[j] = CloseComment)
             j == CHOOSE j \in (i + 1)..Len(text) :
                      text[j] = CloseComment /\ \A h \in (i + 1)..(j - 1) : text[h] # CloseComment
         IN  SubSeq(text, 1, i - 1) \o WithoutComments(SubSeq(text, j + 1, Len(text)))
    ELSE text

\* the parser found the summary in the first tag pair and accepted it
SummaryAccepted ==
    /\ HasPair(last.doc)
    /\ Find(last.doc, CloseTag) = FirstPair(last.doc)[2]
    /\ (last.result.ok \/ last.result.err = "EmptyBody")

\* C22: on a document whose summary is accepted, parsing reports EmptyBody
\* exactly when the text after the closing summary tag, its comment spans
\* removed (those over several lines too), holds only whitespace.
C22_EmptyBodyIffOnlyComments ==
    (last.op = "parse" /\ SummaryAccepted) =>
        ((~last.result.ok /\ last.result.err = "EmptyBody")
            <=> Trim(WithoutComments(AfterTags(last.doc))) = <<>>)

\* C23: parsing fails with MissingSummaryTag exactly when the document has
\* no summary tag pair; when it has one and parsing succeeds, the summary is
\* the trimmed text between the tags of the first pair and the body is the
\* trimmed text after the closing tag of that pair.
C23_SummaryAndBodyOfThePair ==
    last.op = "parse" =>
        /\ (~last.result.ok /\ last.result.err = "MissingSummaryTag") <=> ~HasPair(last.doc)
        /\ last.result.ok =>
              /\ last.result.summary = Trim(BetweenTags(last.doc))
              /\ last.result.body = Trim(AfterTags(last.doc))

\* C24: parsing fails with EmptySummary whenever the document has a summary
\* tag pair and the trimmed text between its tags is empty, whatever follows
\* the pair; and a draft it returns never has an empty summary or a body of
\* whitespace only.
C24_EmptySummaryComesFirst ==
    last.op = "parse" =>
        /\ (HasPair(last.doc) /\ Trim(BetweenTags(last.doc)) = <<>>) =>
              (~last.result.ok /\ last.result.err = "EmptySummary")
        /\ last.result.ok =>
              /\ last.result.summary # <<>>
              /\ Trim(last.result.body) # <<>>

(***************************************************************************)
(* C25.  An entry with no Previous line, or whose Previous line (the first *)
(* line that begins with "Previous: ", as the codec decodes a field) holds  *)
(* a value that is neither "none" nor 64 hex digits, makes verify fail     *)
(* with MissingPreviousLine naming that entry, when every entry before it  *)
(* passes.                                                                 *)
(***************************************************************************)
\* the value of the first line that begins with "Previous: ", of whatever
\* form
AnyPreviousValue(content) ==
    LET lines == Lines(content)
        n == FirstLine([i \in 1..Len(lines) |-> FieldLineMatches(lines[i], "Previous: ")])
    IN  IF n = 0 THEN None ELSE Some(Tail(lines[n]))

\* entry k has no line that begins with "Previous: ", or the first such
\* line holds a malformed value
StructurallyInvalid(k) ==
    LET value == AnyPreviousValue(foreign[k].now[1])
    IN  \/ value = None
        \/ ~PreviousLineMatches(<<T("Previous: ")>> \o value[1])

MissingPreviousLineAt(k) ==
    /\ ~last.result.ok
    /\ last.result.kind = "MissingPreviousLine"
    /\ last.result.filename = foreign[k].name

C25_UndecodablePreviousIsMissingPreviousLine ==
    last.op = "verify" =>
        \A k \in 1..Len(foreign) :
            (/\ foreign[k].now # None
             /\ StructurallyInvalid(k)
             /\ IntactBefore(k)) => MissingPreviousLineAt(k)

(***************************************************************************)
(* C26                                                                     *)
(***************************************************************************)
\* the commit just made ran while the file last.removed was being deleted
RacedCommitDone == last.op = "commit" /\ "removed" \in DOMAIN last

\* no entry file of the history directory, once `removed` is gone, has the
\* sequence number n
NoEntryWithSequence(n, removed) ==
    \A f \in fsEntries[commit_HISTORY_DIR] \ {removed} :
        LET parsed == from_filename(f.name, commit_HISTORY_DIR)
        IN  parsed = None \/ parsed[1].sequence # n

\* C26: when the allocated sequence is greater than 1 and no entry file with
\* the sequence before it exists, commit fails with "Previous entry not
\* found" and writes nothing: the entry files are those that were left, and
\* the index and the draft are as they were
C26_MissingPreviousEntryFailsWithoutWriting ==
    [][ (RacedCommitDone' /\ last'.sequence > 1
           /\ NoEntryWithSequence(last'.sequence - 1, last'.removed))
        => /\ ~last'.ok
           /\ last'.kind = "NotFound"
           /\ last'.detail = "Previous entry not found"
           /\ fsEntries' = [fsEntries EXCEPT ![commit_HISTORY_DIR] = @ \ {last'.removed}]
           /\ fsSummary' = fsSummary
           /\ fsDraft' = fsDraft ]_vars

\* a commit allocated sequence 2 and found the entry 1 deleted
C26_Witness ==
    /\ RacedCommitDone
    /\ last.sequence > 1
    /\ ~last.ok
    /\ last.detail = "Previous entry not found"
    /\ from_filename(last.removed.name, commit_HISTORY_DIR) # None

(***************************************************************************)
(* C27                                                                     *)
(***************************************************************************)
\* C27: a successful commit writes its entry under a file name that no file
\* of the history directory had before: no entry file is written over by a
\* later commit
C27_CommitNeverWritesOverAnEntryFile ==
    [][ (last'.op = "commit" /\ last'.ok /\ committed' # committed)
        => \A f \in fsEntries[commit_HISTORY_DIR] : f.name # last'.filename ]_vars

(***************************************************************************)
(* C28                                                                     *)
(***************************************************************************)
\* the data rows of an index: the file name and the summary each row pairs
IndexRows(content) ==
    LET rows == SelectSeq(Lines(content), LAMBDA l : l # <<>> /\ l[1] = T("| "))
    IN  [i \in DOMAIN rows |->
            [filename |-> SubSeq(rows[i], 2, Find(rows[i], T(" | ")) - 1),
             summary  |-> SubSeq(rows[i], Find(rows[i], T(" | ")) + 1, Len(rows[i]) - 1)]]

\* the data rows of the index commit appends to, among the SUMMARY.md files
\* `summaries`
IndexOf(summaries) ==
    IF summaries[commit_HISTORY_DIR] = None THEN <<>>
    ELSE IndexRows(summaries[commit_HISTORY_DIR][1])

CommitIndex == IndexOf(fsSummary)

\* the rows of an index pair the file names of the entries with their
\* summaries, one row for each entry, in the order of the entries
Mirrors(rows, entries) ==
    /\ Len(rows) = Len(entries)
    /\ \A i \in DOMAIN entries :
          /\ rows[i].filename = entries[i].filename
          /\ Some(rows[i].summary) = parse_summary(entries[i].content)

\* the rows `before` are the first rows of `after`
KeepsRows(before, after) ==
    /\ Len(after) >= Len(before)
    /\ \A i \in DOMAIN before : after[i] = before[i]

\* C28: after N successful commits on a store that had no entries the index
\* holds N data rows, the i-th pairing the file name of the i-th entry
\* committed with its summary, and no step changes or removes a row
C28_IndexMirrorsTheCommits ==
    /\ Mirrors(CommitIndex, committed)
    /\ [][ /\ Mirrors(IndexOf(fsSummary'), committed')
           /\ KeepsRows(IndexOf(fsSummary), IndexOf(fsSummary')) ]_vars

\* three commits were made, two of them of different drafts
C28_Witness ==
    /\ Len(committed) = 3
    /\ Len(CommitIndex) = 3
    /\ \E i, j \in DOMAIN CommitIndex : CommitIndex[i].summary # CommitIndex[j].summary

(***************************************************************************)
(* C29                                                                     *)
(***************************************************************************)
\* C29: reading the index back gives the pairs of file name and summary
\* that were appended, in the order they were appended, without the header
\* rows, whatever summary a draft gave, one that holds `|` included
C29_IndexReadsBackWhatWasAppended ==
    last.op = "read" => last.entries = last.rows

(***************************************************************************)
(* C30                                                                     *)
(***************************************************************************)
\* the entry files verify scans
PersistedEntries ==
    {f \in fsEntries[verify_WORKLOG_DIR] : from_filename(f.name, verify_WORKLOG_DIR) # None}

\* the sequence number of an entry file
SequenceOf(f) == from_filename(f.name, verify_WORKLOG_DIR)[1].sequence

\* the chain invariant of the data model on the persisted entries
ChainInvariant ==
    /\ \A f, g \in PersistedEntries : SequenceOf(f) = SequenceOf(g) => f = g
    /\ \A f \in PersistedEntries :
          /\ parse_previous_hash(f.content) = Some(NoneLink) => SequenceOf(f) = 1
          /\ SequenceOf(f) > 1 =>
                \E g \in PersistedEntries :
                    /\ SequenceOf(g) = SequenceOf(f) - 1
                    /\ parse_previous_hash(f.content) = Some(sha256_hex(g.content))

\* C30: whenever verify reports success the persisted entries satisfy the
\* chain invariant: their sequence numbers are pairwise distinct, the entry
\* whose previous-link is "none" has sequence 1, and every entry of sequence
\* n > 1 has the digest of a persisted entry of sequence n - 1 as its
\* previous-link
C30_SuccessMeansChainInvariant ==
    (last.op = "verify" /\ last.result.ok) => ChainInvariant

\* the persisted entries, taken in ascending order of sequence, are linked:
\* the one that has no entry before it holds "none", and every other one
\* holds the digest of the entry just before it
LinkedInSequenceOrder ==
    \A f \in PersistedEntries :
        LET before == {g \in PersistedEntries : SequenceOf(g) < SequenceOf(f)}
        IN  IF before = {}
            THEN parse_previous_hash(f.content) = Some(NoneLink)
            ELSE \E g \in before :
                    /\ \A h \in before : SequenceOf(h) <= SequenceOf(g)
                    /\ parse_previous_hash(f.content) = Some(sha256_hex(g.content))

\* every file name holds the short digest of the content of its file
NamedByDigest ==
    \A f \in PersistedEntries :
        from_filename(f.name, verify_WORKLOG_DIR)[1].short_hash = sha256_short(f.content)

\* C30, amended: whenever verify reports success the persisted entries,
\* taken in ascending order of sequence, are linked, the first holding "none"
\* and each other one the digest of the entry just before it; the sequence
\* numbers need not be consecutive; each file name holds the short digest of
\* the content of its file
C30_SuccessMeansLinkedInSequenceOrder ==
    (last.op = "verify" /\ last.result.ok) => LinkedInSequenceOrder /\ NamedByDigest

\* verify has succeeded on a chain of three entries whose numbers have a gap
C30_Witness ==
    /\ last.op = "verify"
    /\ last.result.ok
    /\ Cardinality(PersistedEntries) = 3
    /\ ~ChainInvariant
    /\ LinkedInSequenceOrder

(***************************************************************************)
(* C31                                                                     *)
(***************************************************************************)
\* C31: once the content of an entry file commit has written was changed in
\* place, verify fails, whatever number of commits has succeeded since
C31_TamperingStaysDetected ==
    (last.op = "verify" /\ foreign # <<>>) => ~last.result.ok

(***************************************************************************)
(* C32                                                                     *)
(***************************************************************************)
\* the entry files commit has written
CommittedFiles ==
    {f \in fsEntries[commit_HISTORY_DIR] :
        \E i \in DOMAIN committed : committed[i].filename = f.name}

\* C32: when commits run one after another, no two entry files they have
\* written carry the same sequence number (two files of equal sequence are
\* left only by commits that run at the same time)
C32_SequentialCommitsNeverShareASequence ==
    \A f, g \in CommittedFiles :
        NameSequence(f.name) = NameSequence(g.name) => f = g

(***************************************************************************)
(* C33                                                                     *)
(***************************************************************************)
\* C33: in a commit that runs on its own, whenever get_next_sequence gives
\* a sequence s > 1, get_previous_hash finds an entry file of sequence
\* s - 1, whatever the order in which the directory is listed to each of
\* them: no commit fails with "Previous entry not found"
C33_PreviousEntryIsAlwaysFound ==
    /\ \A seen, listing \in HeadListings(Store, commit_HISTORY_DIR) :
          get_next_sequence(Store, commit_HISTORY_DIR, seen) > 1
            => /\ get_previous_hash(Store, commit_HISTORY_DIR,
                     get_next_sequence(Store, commit_HISTORY_DIR, seen), listing).ok
               /\ \E f \in fsEntries[commit_HISTORY_DIR] :
                     /\ from_filename(f.name, commit_HISTORY_DIR) # None
                     /\ from_filename(f.name, commit_HISTORY_DIR)[1].sequence + 1
                          = get_next_sequence(Store, commit_HISTORY_DIR, seen)
    /\ last.op = "commit" => last.detail # "Previous entry not found"

\* a commit was given a sequence above 1 and has linked its entry to the
\* entry before it
C33_Witness ==
    /\ last.op = "commit"
    /\ last.ok
    /\ last.previous # NoneLink
    /\ committed[Len(committed)].sequence > 1

(***************************************************************************)
(* C34                                                                     *)
(***************************************************************************)
\* C34: on a store whose last entry has the highest sequence number that
\* fits the width of the file names, the sequence numbers of the commits
\* stay strictly increasing: the entry that needs one digit more is
\* recognised by from_filename and its number is not given again
C34_SequenceGrowsPastTheWidth ==
    \A i, j \in DOMAIN committed :
        i < j => /\ committed[i].sequence < committed[j].sequence
                 /\ from_filename(committed[i].filename, commit_HISTORY_DIR) # None

(***************************************************************************)
(* C35                                                                     *)
(***************************************************************************)
\* the validation of commit accepts the draft
CommitAccepts(draft) == draft # None /\ Draft_parse(draft[1]).ok

\* what status has reported of the draft agrees with the validation of
\* commit on it
StatusAgreesWithCommit(l, draft) ==
    (l.op = "status" /\ l.result.ok) =>
        /\ l.result.draft.kind = "HasContent" <=> CommitAccepts(draft)
        /\ CommitAccepts(draft) => l.result.draft.summary = Draft_parse(draft[1]).summary
        /\ l.result.draft.kind = "Empty" <=> (draft # None /\ ~CommitAccepts(draft))
        /\ l.result.draft.kind = "NotFound" <=> draft = None

\* C35: status reports "has content" with the summary of the draft exactly
\* when commit's validation accepts the draft, "empty" when the file exists
\* and is rejected, as after a successful init and after every successful
\* commit, and "not found" when the file is missing; commit fails with
\* InvalidData exactly on the drafts it rejects
C35_StatusClassifiesDraftAsCommitDoes ==
    /\ StatusAgreesWithCommit(last, fsDraft)
    /\ [][ /\ StatusAgreesWithCommit(last', fsDraft')
           /\ last'.op = "commit" =>
                 (last'.kind = "InvalidData"
                    <=> (commit_ENGRAM_DIR \in fsDirs /\ fsDraft # None /\ ~CommitAccepts(fsDraft)))
           /\ (last'.op \in {"init", "commit"} /\ last'.ok) =>
                 (fsDraft' # None /\ ~CommitAccepts(fsDraft')) ]_vars

\* status has reported an empty draft after a successful commit
C35_Witness ==
    /\ last.op = "status" /\ last.result.ok
    /\ last.result.draft.kind = "Empty"
    /\ committed # <<>>
    /\ fsDraft = Some(DRAFT_TEMPLATE)

(***************************************************************************)
(* C36                                                                     *)
(***************************************************************************)
\* C36: on every set of file names in the entry directory,
\* next_sequence_number of utils/fs.rs and get_next_sequence of commit.rs
\* give the same sequence number
C36_AllocatorsAgree ==
    last.op = "allocate" => last.by_list = [ok |-> TRUE, value |-> last.by_scan]

====
